---------------------------- MODULE Spec2Model ----------------------------
(***************************************************************************)
(* A model of the brle codec (src/src/brle.h): the block format, the       *)
(* incremental encoder (push / flush), the incremental decoder (pull) and  *)
(* the bulk wrappers encode / decode; and of the command line of the       *)
(* utility (src/util/brle.cpp).                                            *)
(*                                                                         *)
(* A word of DataT is modelled as the set of its set bit positions, a      *)
(* subset of 0..digits-1, so that every word width (8, 16, 32, 64) is      *)
(* modelled at its true width.  A block (brle8) is a number in 0..255.     *)
(***************************************************************************)
EXTENDS Integers, Sequences, FiniteSets, TLC

VARIABLES
    digits,     \* std::numeric_limits< DataT >::digits (buffer_capacity)
    ub,         \* what the build makes of a shift by digits on a 32/64 bit DataT
    data,       \* the words handed to encode, [input, last)
    input,      \* encode's input cursor: index of the next word to push
    e,          \* the encoder object, with the memory its output iterator writes
    rle,        \* the blocks handed to decode
    d,          \* the decoder object
    decoded,    \* the words decode has written to its output
    result,     \* the decoder_result of the latest pull
    pc,         \* where the caller is: "encode", "decode", "done", ..
    job,        \* what the caller does: "roundtrip" (test.cpp), "decode", ..
    arg,        \* the count a run block is made of, or the byte classified;
                \* the number of blocks or words before a set_input or flush
    cli,        \* the run of the utility (util/brle.cpp): main and its locals
    other       \* the encoder that e was move-constructed from

vars == << digits, ub, data, input, e, rle, d, decoded, result, pc, job, arg, cli,
          other >>

-----------------------------------------------------------------------------
(* Bounds of the model *)

\* length up to which every word sequence over the alphabet is an input
MaxWords == 3
\* the long-run inputs repeat an all-zero or all-one word up to
\* (8 * MaxRunBytes) \div digits + 1 times
MaxRunBytes == 9
\* length up to which every block sequence over BlockAlphabet is decoded
MaxBlocks == 3
\* length up to which every word sequence over Alphabet is pushed into an
\* encoder that is flushed or destroyed at any point
MaxLifeWords == 2
\* length up to which every word sequence over EncAlphabet is encoded
MaxEncWords == 3
\* number of arguments up to which every command line over Tokens is run
MaxArgs == 4
\* number of byte pairs up to which every byte sequence over ByteAlphabet
\* is encoded at two widths
MaxPairs == 2
\* number of bits of the patterns that, shifted to every position, are the
\* 32 and 64 bit values whose trailing bits are counted
MaxCountBits == 4

-----------------------------------------------------------------------------
(* Program constants: src/src/brle.h 54-65 *)

mode_literal == 0
mode_zeros   == 128
mode_ones    == 192
max_count    == 71
min_brle_len == 8
literal_size == 7

-----------------------------------------------------------------------------
(* Words as sets of bit positions *)

Min(a, b) == IF a < b THEN a ELSE b

\* the bits of the number n (0 <= n < 2^31) that lie below width w
Bits(n, w) == { i \in 0..(w - 1) : i < 31 /\ (n \div (2 ^ i)) % 2 = 1 }

RECURSIVE Val(_)
\* the number whose set bits are x (x within 0..30)
Val(x) == IF x = {} THEN 0
          ELSE LET i == CHOOSE j \in x : TRUE IN (2 ^ i) + Val(x \ {i})

\* the word whose bytes, least significant first, are bytes
FromBytes(bytes) ==
    { i \in 0..(8 * Len(bytes) - 1) : (i % 8) \in Bits(bytes[(i \div 8) + 1], 8) }

\* the word of width w every byte of which is b
RepByte(b, w) == { i \in 0..(w - 1) : (i % 8) \in Bits(b, 8) }

Or(x, y)  == x \cup y
And(x, y) == x \cap y
Not(x)    == (0..(digits - 1)) \ x
base_mask == 0..(digits - 1)

\* x << k, the result converted to DataT
Shl(x, k) == { j \in 0..(digits - 1) : (j - k) \in x }

\* x >> k for 0 <= k below the width of the promoted operand
Shr(x, k) == { j \in 0..(digits - 1) : (j + k) \in x }

\* x >> k on an operand of type DataT.  uint8_t and uint16_t are promoted to
\* int, so every count up to digits is defined.  A 32 or 64 bit DataT is not
\* promoted, and a count of digits is undefined behaviour: the build either
\* masks the count (x86: x >> 0) or yields 0.
ShrData(x, k) ==
    IF digits >= 32 /\ k >= digits
    THEN IF ub = "masked" THEN Shr(x, k % digits) ELSE {}
    ELSE Shr(x, k)

\* std::countr_zero / std::countr_one of a DataT value
countr_zero(x) ==
    IF x = {} THEN digits
    ELSE CHOOSE i \in x : \A j \in x : i <= j

countr_one(x) == countr_zero(Not(x))

-----------------------------------------------------------------------------
(* The surrogates of std::countr_zero and std::countr_one of the builds
   before C++20: src/src/brle.h 113-208.  The arithmetic is done at the
   width the operands are converted to: unsigned int (32 bits) for uint8_t,
   uint16_t and uint32_t values, 64 bits for uint64_t; the conversion of a
   result to a narrower type keeps its low bits. *)

\* ~x on an operand of w bits
NotW(x, w) == (0..(w - 1)) \ x

\* x + 1u on an operand of w bits
IncW(x, w) ==
    LET clear == (0..(w - 1)) \ x
    IN  IF clear = {} THEN {}
        ELSE LET k == CHOOSE i \in clear : \A j \in clear : i <= j
             IN  (x \ (0..(k - 1))) \cup { k }

\* x << k on an operand of w bits
ShlW(x, k, w) == { j \in 0..(w - 1) : (j - k) \in x }

RECURSIVE CarryW(_, _, _)
\* the carry into bit j of a + b
CarryW(a, b, j) ==
    IF j = 0 THEN FALSE
    ELSE LET c == CarryW(a, b, j - 1)
         IN  \/ ((j - 1) \in a /\ (j - 1) \in b)
             \/ (c /\ ((j - 1) \in a \/ (j - 1) \in b))

\* a + b on operands of w bits
AddW(a, b, w) ==
    { j \in 0..(w - 1) : ((j \in a) # (j \in b)) # CarryW(a, b, j) }

RECURSIVE MulW(_, _, _)
\* a * b on operands of w bits
MulW(a, b, w) ==
    IF a = {} THEN {}
    ELSE LET i == CHOOSE j \in a : TRUE
         IN  AddW(ShlW(b, i, w), MulW(a \ { i }, b, w), w)

de_bruin_8  == Bits(29, 8)
de_bruin_16 == Bits(3375, 32)
de_bruin_32 == Bits(125613361, 32)
de_bruin_64 == FromBytes(<< 183, 66, 253, 50, 79, 35, 177, 3 >>)

\* const int lookup[]: the table of the surrogate for a value of w bits
lookup(w) ==
    CASE w = 8  -> << 0, 1, 6, 2, 7, 5, 4, 3 >>
      [] w = 16 -> << 0, 1, 8, 2, 6, 9, 3, 11, 15, 7, 5, 10, 14, 4, 13, 12 >>
      [] w = 32 -> << 0, 1, 28, 2, 29, 14, 24, 3, 30, 22, 20, 15, 25, 17, 4, 8,
                      31, 27, 13, 23, 21, 19, 16, 7, 26, 12, 18, 6, 11, 5, 10, 9 >>
      [] w = 64 -> << 0, 1, 50, 2, 12, 51, 19, 3, 16, 13, 52, 36, 32, 20, 4, 26,
                      48, 17, 14, 24, 46, 53, 55, 37, 9, 33, 21, 57, 60, 5, 27,
                      39, 63, 49, 11, 18, 15, 35, 31, 25, 47, 23, 45, 54, 8, 56,
                      59, 38, 62, 10, 34, 30, 22, 44, 7, 58, 61, 29, 43, 6, 28,
                      42, 41, 40 >>

\* mutant: the hash is the value times the constant
hash_of_value(value, de_bruin, w) == MulW(value, de_bruin, w)

\* ( value & ( ~value + 1u ) ) * de_bruin, on operands of w bits; ~value
\* has the bits above the width of the value set
hash_of(value, de_bruin, w) ==
    MulW(And(value, IncW(NotW(value, w), w)), de_bruin, w)

\* detail::countr_zero< T >( value ), the surrogate
countr_zero_surrogate(value) ==
    CASE digits = 8 ->
           IF value # {}
           THEN LET hash  == hash_of(value, de_bruin_8, 32) \cap (0..7)
                    index == Val(Shr(hash, 5))
                IN  lookup(8)[index + 1]
           ELSE 8
      [] digits = 16 ->
           IF value # {}
           THEN LET hash  == hash_of(value, de_bruin_16, 32) \cap (0..15)
                    index == Val(Shr(hash, 12))
                IN  lookup(16)[index + 1]
           ELSE 16
      [] digits = 32 ->
           IF value # {}
           THEN LET hash  == hash_of(value, de_bruin_32, 32)
                    index == Val(Shr(hash, 27))
                IN  lookup(32)[index + 1]
           ELSE 32
      [] digits = 64 ->
           IF value # {}
           THEN LET hash  == hash_of(value, de_bruin_64, 64)
                    index == Val(Shr(hash, 58))
                IN  lookup(64)[index + 1]
           ELSE 64

\* detail::countr_one< T >( value ), the surrogate: ~value is an int for a
\* value of 8 or 16 bits, and static_cast< T > keeps its low bits
countr_one_surrogate(value) ==
    countr_zero_surrogate(NotW(value, IF digits = 64 THEN 64 ELSE 32)
                            \cap (0..(digits - 1)))

-----------------------------------------------------------------------------
(* Block format: src/src/brle.h 67-93 *)

brle8_mode(b) == Val(And(Bits(b, 8), Bits(192, 8)))

\* mutant: the count of a run block is taken one too small
count_from_seven(b) == Val(And(Bits(b, 8), Bits(63, 8))) + 7

count(b) == Val(And(Bits(b, 8), Bits(63, 8))) + min_brle_len

\* mutant: the literal holds the 7 bits above bit 0 of the buffer
make_literal_above(buffer) == Val(And({ j \in 0..6 : (j + 1) \in buffer }, Bits(127, 8)))

make_literal(buffer) == Val(And(buffer, Bits(127, 8)))

\* the asserted precondition of make_zeros and make_ones
count_in_range(c) == c >= min_brle_len /\ c <= max_count

\* mutant: a zeros block is written with the tag of a ones block
make_zeros_as_ones(c) == Val(Or(Bits(mode_ones, 8), Bits((c - min_brle_len) % 256, 8)))

make_zeros(c) == Val(Or(Bits(mode_zeros, 8), Bits((c - min_brle_len) % 256, 8)))

\* mutant: the count of a ones block is stored from 7
make_ones_from_seven(c) == Val(Or(Bits(mode_ones, 8), Bits((c - 7) % 256, 8)))

make_ones(c) == Val(Or(Bits(mode_ones, 8), Bits((c - min_brle_len) % 256, 8)))

-----------------------------------------------------------------------------
(* The encoder: src/src/brle.h 214-426.  The record holds the members of the
   class, the memory `sink` the output iterator writes to (output is the
   index of the next block to write), `stored`, the positions written to in
   the order of the writes, `drained`, the numbers of bits consumed by the
   steps of the drain loops of push and flush, in the order of the steps,
   `asserts_ok`, which is FALSE once an assert of the code has failed, and
   `shifts_ok`, which is FALSE once push has shifted a DataT value by a
   count outside 0..digits-1. *)

\* encoder( OutputIt output )
new_encoder == [ output      |-> 1,
                 buffer      |-> {},
                 buffer_size |-> 0,
                 state       |-> "init",
                 rlen        |-> 0,
                 sink        |-> << >>,
                 stored      |-> << >>,
                 drained     |-> << >>,
                 asserts_ok  |-> TRUE,
                 shifts_ok   |-> TRUE ]

\* no encoder: the object does not exist
no_encoder == [ state |-> "none" ]

\* encoder( encoder && other ): the new encoder, with the members of other,
\* and other, which keeps its members; the writes of other are counted from
\* here
move_construct(s) == [ new |-> s, other |-> [ s EXCEPT !.stored = << >> ] ]

\* mutant: reset leaves the buffered bits
reset_keeping_buffer(s) == [ s EXCEPT !.state = "init", !.rlen = 0 ]

reset(s) == [ s EXCEPT !.buffer = {}, !.buffer_size = 0,
                       !.state = "init", !.rlen = 0 ]

\* *output = b
store(s, b) ==
    [ s EXCEPT !.sink = IF s.output <= Len(s.sink)
                        THEN [ s.sink EXCEPT ![s.output] = b ]
                        ELSE Append(s.sink, b),
               !.stored = Append(s.stored, s.output) ]

\* mutant: the block is written without advancing the output
write_without_advance(s, b) == store(s, b)

\* *output++ = b
write(s, b) == [ store(s, b) EXCEPT !.output = s.output + 1 ]

check(s, cond) == [ s EXCEPT !.asserts_ok = s.asserts_ok /\ cond ]

\* mutant: any run starts a run block
starts_run_always(n) == n > 0

\* mutant: a run of 7 bits starts a run block
starts_run_at_seven(n) == n >= literal_size

\* mutant: a run of 8 bits does not start a run block
starts_run_above_eight(n) == n > min_brle_len

\* zeros > detail::literal_size, ones > detail::literal_size: the run is
\* long enough to start a run block
starts_run(n) == n > literal_size

\* one step of a drain loop has consumed c bits
drain(s, c) == [ s EXCEPT !.drained = Append(s.drained, c) ]

\* push( data ) has shifted a DataT value by k bits
shifted(s, k) == [ s EXCEPT !.shifts_ok = s.shifts_ok /\ k >= 0 /\ k < digits ]

\* mutant: a run block of count 71 is written without taking a bit
full_run_consumed_nothing(consumed) == 0

\* mutant: a run block of count 71 takes a terminator bit as well
full_run_consumed_with_terminator(consumed) == consumed + 1

\* return consumed: a run that reaches max_count takes no terminator bit
full_run_consumed(consumed) == consumed

\* mutant: a run is extended by all the identical bits at hand
run_extension_unbounded(rlen, n) == n

\* std::min( max_count - rlen, zeros ): the bits a run is extended by
run_extension(rlen, n) == Min(max_count - rlen, n)

\* int push( data, zeros, ones ): one drain step; the encoder after it and
\* the number of bits it consumed
push_step(s, buf, zeros, ones) ==
    CASE s.state = "init" ->
           IF starts_run(zeros)
           THEN [ s |-> [ s EXCEPT !.rlen = zeros, !.state = "zeros" ],
                  consumed |-> zeros ]
           ELSE IF starts_run(ones)
           THEN [ s |-> [ s EXCEPT !.rlen = ones, !.state = "ones" ],
                  consumed |-> ones ]
           ELSE [ s |-> write(check(s, s.rlen = 0), make_literal(buf)),
                  consumed |-> literal_size ]
      [] s.state = "zeros" ->
           IF zeros > 0
           THEN LET consumed == run_extension(s.rlen, zeros)
                    r        == s.rlen + consumed
                    t        == check(s, r <= max_count)
                IN  IF r = max_count
                    THEN [ s |-> [ write(t, make_zeros(max_count))
                                     EXCEPT !.state = "init", !.rlen = 0 ],
                           consumed |-> full_run_consumed(consumed) ]
                    ELSE [ s |-> [ t EXCEPT !.rlen = r ],
                           consumed |-> consumed ]
           ELSE [ s |-> [ write(check(s, count_in_range(s.rlen)), make_zeros(s.rlen))
                            EXCEPT !.state = "init", !.rlen = 0 ],
                  consumed |-> 1 ]
      [] s.state = "ones" ->
           IF ones > 0
           THEN LET consumed == run_extension(s.rlen, ones)
                    r        == s.rlen + consumed
                    t        == check(s, r <= max_count)
                IN  IF r = max_count
                    THEN [ s |-> [ write(t, make_ones(max_count))
                                     EXCEPT !.state = "init", !.rlen = 0 ],
                           consumed |-> full_run_consumed(consumed) ]
                    ELSE [ s |-> [ t EXCEPT !.rlen = r ],
                           consumed |-> consumed ]
           ELSE [ s |-> [ write(check(s, count_in_range(s.rlen)), make_ones(s.rlen))
                            EXCEPT !.state = "init", !.rlen = 0 ],
                  consumed |-> 1 ]

RECURSIVE push_loop(_, _, _, _)
\* the do-while loop of push( data ): the encoder, shift_buffer and bits
\* when the loop is left
push_loop(s, word, shift_buffer, bits) ==
    LET sb    == Or(shift_buffer, Shl(word, bits))
        zeros == countr_zero(sb)
        ones  == countr_one(sb)
        p     == push_step(s, sb, zeros, ones)
        t     == check(drain(shifted(shifted(p.s, bits), p.consumed), p.consumed),
                       p.consumed > 0)
        sb2   == ShrData(sb, p.consumed)
        bits2 == bits - p.consumed
    IN  IF (bits2 + digits) >= digits
        THEN push_loop(t, word, sb2, bits2)
        ELSE [ s |-> t, shift_buffer |-> sb2, bits |-> bits2 ]

\* mutant: the number of bits taken is kept as the number of bits left
rebuffered_size_taken(bits) == -bits

\* buffer_size = bits + buffer_capacity
rebuffered_size(bits) == bits + digits

\* OutputIt push( data )
push(s, word) ==
    LET l == push_loop(s, word, s.buffer, s.buffer_size)
        t == [ shifted(l.s, IF l.bits >= 0 THEN l.bits ELSE -l.bits) EXCEPT
                 !.buffer = IF l.bits >= 0
                            THEN Or(l.shift_buffer, Shl(word, l.bits))
                            ELSE ShrData(word, -l.bits),
                 !.buffer_size = rebuffered_size(l.bits) ]
    IN  check(t, t.buffer_size >= 0)

\* mutant: flush never writes a final literal
pending_literal_never(size) == FALSE

\* mutant: flush writes a final literal also when no bit is left
pending_literal_always(size) == TRUE

\* if( buffer_size > 0 ): bits are left for a final literal
pending_literal(size) == size > 0

\* mutant: flush counts the bits of the whole buffer
available_unclamped(n, size) == n

\* std::min( countr( buffer ), buffer_size ): flush counts only the bits
\* that are in the buffer
available(n, size) == Min(n, size)

RECURSIVE flush_loop(_)
\* the while loop of flush
flush_loop(s) ==
    IF s.buffer_size >= literal_size \/ s.state # "init"
    THEN LET zeros == available(countr_zero(s.buffer), s.buffer_size)
             ones  == available(countr_one(s.buffer), s.buffer_size)
             p     == push_step(s, s.buffer, zeros, ones)
         IN  flush_loop([ drain(p.s, p.consumed) EXCEPT
                            !.buffer = ShrData(s.buffer, p.consumed),
                            !.buffer_size = s.buffer_size - p.consumed ])
    ELSE s

\* OutputIt flush()
flush(s) ==
    LET t == flush_loop(s)
        done(u) == [ reset(u) EXCEPT !.output = u.output + 1 ]
    IN  CASE t.state = "init" ->
               LET u == check(t, t.buffer_size < literal_size)
               IN  IF pending_literal(u.buffer_size)
                   THEN done(store(u, make_literal(u.buffer)))
                   ELSE reset(u)
          [] t.state = "zeros" ->
               done(store(check(t, t.rlen > literal_size /\ count_in_range(t.rlen)),
                          make_zeros(t.rlen)))
          [] t.state = "ones" ->
               done(store(check(t, t.rlen > literal_size /\ count_in_range(t.rlen)),
                          make_ones(t.rlen)))

\* mutant: the destructor looks at the buffer only
destroy_unless_empty_buffer(s) == IF s.buffer_size > 0 THEN flush(s) ELSE s

\* ~encoder()
destroy(s) == IF s.buffer_size > 0 \/ s.rlen > 0 THEN flush(s) ELSE s

RECURSIVE encode_loop(_, _, _)
encode_loop(s, words, i) ==
    IF i > Len(words) THEN s ELSE encode_loop(push(s, words[i]), words, i + 1)

\* mutant: the bulk wrapper flushes after every word
RECURSIVE encode_flushing_each(_)
encode_flushing_each(words) ==
    IF words = << >> THEN flush(new_encoder)
    ELSE LET before == encode_flushing_each(SubSeq(words, 1, Len(words) - 1))
         IN  flush(push(before, words[Len(words)]))

\* encode( input, last, output ): the encoder after the final flush; the
\* blocks written are sink[1 .. output-1]
encode(words) == flush(encode_loop(new_encoder, words, 1))

written(s) == SubSeq(s.sink, 1, s.output - 1)

-----------------------------------------------------------------------------
(* The decoder: src/src/brle.h 443-700.  input is the index into the source
   blocks of the next block to read, last is one past the final block.
   `fetched` is the positions read, in the order of the reads, and
   `shifts_ok` is FALSE once a shift count was outside 0..digits-1. *)

\* decoder( InputIt input, InputIt last )
new_decoder(first, last) == [ input       |-> first,
                              last        |-> last,
                              buffer      |-> {},
                              buffer_size |-> 0,
                              state       |-> "read",
                              rlen        |-> 0,
                              fetched     |-> << >>,
                              shifts_ok   |-> TRUE ]

\* mutant: set_input starts the decoder anew, as the constructor does
set_input_fresh(s, input_, last_) == new_decoder(input_, last_)

\* void set_input( InputIt input_, InputIt last_ )
set_input(s, input_, last_) == [ s EXCEPT !.input = input_, !.last = last_ ]

\* a shift of a DataT value by k bits
shift_by(s, k) == [ s EXCEPT !.shifts_ok = s.shifts_ok /\ k >= 0 /\ k < digits ]

\* decoder_result< DataT >
no_result == [ data |-> {}, status |-> "done" ]

success(t, word) == [ d |-> t, data |-> word, status |-> "success" ]

\* mutant: a zeros block of 71 is decoded like a shorter one, with a stuffed 1
zeros_state_always_stuffs(r) == "zeros"

\* the state a zeros block of count r puts the decoder in
zeros_state(r) == IF r < max_count THEN "zeros" ELSE "zeros_max"

\* mutant: no ones block is followed by a stuffed bit
ones_state_never_stuffs(r) == "ones_max"

\* the state a ones block of count r puts the decoder in
ones_state(r) == IF r < max_count THEN "ones" ELSE "ones_max"

\* mutant: the literal is kept unshifted as the new carry buffer
literal_rest_unshifted(in, shift) == Bits(in, 8)

\* static_cast< DataT >( in ) >> shift: the bits of a literal that did not
\* fit in the word returned
literal_rest(in, shift) == Shr(Bits(in, 8), shift)

\* mutant: at the end of the source the bits left in the buffer are
\* returned as a last word
at_end_returning_rest(s) ==
    IF s.buffer_size > 0
    THEN success([ s EXCEPT !.buffer = {}, !.buffer_size = 0 ], s.buffer)
    ELSE [ d |-> s, data |-> {}, status |-> "done" ]

\* mutant: a pull at the end of the source drops the top bit of the carry
\* buffer
at_end_dropping_a_bit(s) ==
    IF s.buffer_size > 0
    THEN [ d |-> [ s EXCEPT !.buffer = s.buffer \ { s.buffer_size - 1 },
                            !.buffer_size = s.buffer_size - 1 ],
           data |-> {}, status |-> "done" ]
    ELSE [ d |-> s, data |-> {}, status |-> "done" ]

\* return { {}, decoder_status::done }
at_end(s) == [ d |-> s, data |-> {}, status |-> "done" ]

RECURSIVE pull(_, _)
\* decoder_result< DataT > pull(): the decoder after the call and the result
pull(s, src) ==
    CASE s.state = "read" ->
           IF s.input = s.last
           THEN at_end(s)
           ELSE
             LET in == src[s.input]
                 t  == [ s EXCEPT !.input = s.input + 1,
                                  !.fetched = Append(s.fetched, s.input) ]
             IN  CASE brle8_mode(in) = mode_zeros ->
                        LET r == count(in)
                        IN  pull([ t EXCEPT !.rlen = r, !.state = zeros_state(r) ],
                                 src)
                   [] brle8_mode(in) = mode_ones ->
                        LET r == count(in)
                        IN  pull([ t EXCEPT !.rlen = r, !.state = ones_state(r) ],
                                 src)
                   [] OTHER ->
                        LET buf      == Or(t.buffer, Shl(Bits(in, 8), t.buffer_size))
                            produced == t.buffer_size + literal_size
                            u        == shift_by(t, t.buffer_size)
                        IN  IF produced >= digits
                            THEN LET shift == digits - t.buffer_size
                                 IN  success([ shift_by(u, shift) EXCEPT
                                                 !.buffer = literal_rest(in, shift),
                                                 !.buffer_size = literal_size - shift ],
                                             buf)
                            ELSE pull([ u EXCEPT !.buffer = buf,
                                                 !.buffer_size = produced ], src)
      [] s.state = "zeros" ->
           LET free             == digits - s.buffer_size
               rlen_include_one == s.rlen + 1
           IN  IF rlen_include_one > free
               THEN success([ s EXCEPT !.rlen = s.rlen - free, !.buffer = {},
                                       !.buffer_size = 0 ], s.buffer)
               ELSE LET buf == Or(s.buffer, Shl({0}, s.rlen + s.buffer_size))
                        t   == [ shift_by(s, s.rlen + s.buffer_size) EXCEPT
                                   !.buffer = buf, !.state = "read" ]
                    IN  IF rlen_include_one = free
                        THEN success([ t EXCEPT !.buffer = {}, !.buffer_size = 0 ], buf)
                        ELSE pull([ t EXCEPT !.buffer_size =
                                        s.buffer_size + rlen_include_one ], src)
      [] s.state = "zeros_max" ->
           LET free == digits - s.buffer_size
           IN  IF s.rlen > free
               THEN success([ s EXCEPT !.rlen = s.rlen - free, !.buffer = {},
                                       !.buffer_size = 0 ], s.buffer)
               ELSE LET t == [ s EXCEPT !.state = "read" ]
                    IN  IF s.rlen = free
                        THEN success([ t EXCEPT !.buffer = {}, !.buffer_size = 0 ],
                                     s.buffer)
                        ELSE pull([ t EXCEPT !.buffer_size = s.buffer_size + s.rlen ],
                                  src)
      [] s.state = "ones" ->
           LET free              == digits - s.buffer_size
               rlen_include_zero == s.rlen + 1
               buf               == Or(s.buffer, Shl(base_mask, s.buffer_size))
               u                 == shift_by(s, s.buffer_size)
           IN  IF rlen_include_zero > free
               THEN success([ u EXCEPT !.rlen = s.rlen - free, !.buffer = {},
                                       !.buffer_size = 0 ], buf)
               ELSE LET mask == Not(Shl(base_mask, s.buffer_size + s.rlen))
                        buf2 == And(buf, mask)
                        t    == [ shift_by(u, s.buffer_size + s.rlen) EXCEPT
                                    !.buffer = buf2, !.state = "read" ]
                    IN  IF rlen_include_zero = free
                        THEN success([ t EXCEPT !.buffer = {}, !.buffer_size = 0 ], buf2)
                        ELSE pull([ t EXCEPT !.buffer_size =
                                        s.buffer_size + rlen_include_zero ], src)
      [] s.state = "ones_max" ->
           LET free == digits - s.buffer_size
               buf  == Or(s.buffer, Shl(base_mask, s.buffer_size))
               u    == shift_by(s, s.buffer_size)
           IN  IF s.rlen > free
               THEN success([ u EXCEPT !.rlen = s.rlen - free, !.buffer = buf,
                                       !.buffer_size = 0 ], buf)
               ELSE LET size == s.buffer_size + s.rlen
                        t    == [ u EXCEPT !.state = "read" ]
                    IN  IF size = digits
                        THEN success([ t EXCEPT !.buffer = {}, !.buffer_size = 0 ], buf)
                        ELSE LET mask == Not(Shl(base_mask, size))
                             IN  pull([ shift_by(t, size) EXCEPT
                                          !.buffer = And(buf, mask),
                                          !.buffer_size = size ], src)

RECURSIVE decode_loop(_, _, _)
decode_loop(s, src, out) ==
    LET r == pull(s, src)
    IN  IF r.status = "success"
        THEN decode_loop(r.d, src, Append(out, r.data))
        ELSE out

\* decode( input, last, output ): the words written to output
decode(src) == decode_loop(new_decoder(1, Len(src) + 1), src, << >>)

-----------------------------------------------------------------------------
(* The utility: src/util/brle.cpp.  A C string is the sequence of its
   characters; the character '\0' that ends it is NUL.  A pointer into the
   argument strings is the index of the argument and the offset in it,
   offset 1 being the first character and Len + 1 the terminator. *)

NUL     == ""
nullptr == [ arg |-> 0, off |-> 0 ]

\* int main( argc, argv ): the strings of the command line after argv[ 0 ]
argv_of(args) ==
    [ i \in 0..Len(args) |-> IF i = 0 THEN << "b", "r", "l", "e" >> ELSE args[i] ]

\* options( argc, argv )
new_options(args) ==
    [ argc |-> Len(args) + 1, argv |-> argv_of(args), index |-> 1, opt |-> nullptr ]

\* *p, for p at a character or at the terminator of its string
deref(o, p) ==
    IF p.off <= Len(o.argv[p.arg]) THEN o.argv[p.arg][p.off] ELSE NUL

\* p + n
plus(p, n) == [ p EXCEPT !.off = p.off + n ]

\* return opt ? *opt++ : '\0'
next_char(o) ==
    IF o.opt # nullptr
    THEN [ o |-> [ o EXCEPT !.opt = plus(o.opt, 1) ], c |-> deref(o, o.opt) ]
    ELSE [ o |-> o, c |-> NUL ]

\* char options::read_option(): the options object after the call and the
\* character returned
read_option(o) ==
    IF o.index < o.argc /\ (o.opt = nullptr \/ deref(o, o.opt) = NUL)
    THEN LET p == [ arg |-> o.index, off |-> 1 ]
             t == [ o EXCEPT !.index = o.index + 1, !.opt = p ]
         IN  IF deref(t, p) # "-" \/ deref(t, plus(p, 1)) = NUL
             THEN [ o |-> t, c |-> NUL ]
             ELSE IF deref(t, plus(p, 1)) = "-"
             THEN [ o |-> [ t EXCEPT !.opt = plus(p, 2) ], c |-> NUL ]
             ELSE next_char([ t EXCEPT !.opt = plus(p, 1) ])
    ELSE next_char(o)

\* std::string_view( arg ): the characters from arg to the terminator.  An
\* arg behind the terminator of the last string reads memory that is not
\* part of the string: the view is whatever is found there, beyond.
string_view(o, p, beyond) ==
    IF p = nullptr THEN << >>
    ELSE IF p.off <= Len(o.argv[p.arg]) + 1
    THEN SubSeq(o.argv[p.arg], p.off, Len(o.argv[p.arg]))
    ELSE beyond

\* std::string_view options::read_argument(): the options object after
\* the call and the argument returned
read_argument(o, beyond) ==
    LET take == o.index < o.argc /\ (o.opt = nullptr \/ deref(o, o.opt) = NUL)
        p    == IF take THEN [ arg |-> o.index, off |-> 1 ] ELSE o.opt
    IN  [ o |-> [ o EXCEPT !.index = IF take THEN o.index + 1 ELSE o.index,
                           !.opt = nullptr ],
          s |-> string_view(o, p, beyond) ]

\* the locals of main when it starts, and the file contents it finds
new_main(args) ==
    [ opts      |-> new_options(args),
      direction |-> "e",
      input     |-> << >>,
      output    |-> << >>,
      helped    |-> FALSE,
      in_file   |-> "none",
      out_file  |-> "none",
      at        |-> "options",
      status    |-> "running" ]

\* the value of cli while no utility runs
no_cli == [ at |-> "none" ]

\* mutant: once the direction is decode it stays decode
set_direction_once(m, c) ==
    IF m.direction = "d" THEN m ELSE [ m EXCEPT !.direction = c ]

\* direction = transformation::encode_, direction = transformation::decode_
set_direction(m, c) == [ m EXCEPT !.direction = c ]

\* brle_argument_error, brle_errno: std::exit
exit(m, code) == [ m EXCEPT !.at = "exit", !.status = code ]

-----------------------------------------------------------------------------
(* The inputs *)

Widths == { 8, 16, 32, 64 }

zero_word  == {}
ones_word  == 0..(digits - 1)
low_half   == 0..((digits \div 2) - 1)
high_half  == (digits \div 2)..(digits - 1)

\* the words the exhaustive inputs are made of
Alphabet ==
    IF digits <= 16
    THEN { zero_word, ones_word, RepByte(170, digits), low_half, high_half,
           {0}, {digits - 1} }
    ELSE { zero_word, ones_word, RepByte(170, digits), low_half }

\* the words that may stand before and after a long run
Edge == { zero_word, ones_word, RepByte(170, digits), low_half }

RECURSIVE SeqsUpTo(_, _)
\* the sequences over S of length at most n
SeqsUpTo(S, n) ==
    IF n = 0 THEN { << >> }
    ELSE LET T == SeqsUpTo(S, n - 1)
         IN  T \cup { Append(t, x) : t \in { u \in T : Len(u) = n - 1 }, x \in S }

Repeat(x, n) == [ i \in 1..n |-> x ]

RunInputs ==
    { pre \o Repeat(w, k) \o post :
        pre \in SeqsUpTo(Edge, 1), post \in SeqsUpTo(Edge, 1),
        w \in { zero_word, ones_word },
        k \in 1..(((8 * MaxRunBytes) \div digits) + 1) }

Words8(bytes) == [ i \in 1..Len(bytes) |-> Bits(bytes[i], 8) ]

\* the inputs of README.md and tests/test.cpp
TestInputs ==
    CASE digits = 8 ->
           { Words8(<< 255, 255, 15, 0, 0, 0, 0, 170 >>),
             Words8(<< 0, 0, 128, 64 >>),
             Words8(<< 170, 170, 170, 170, 0, 0, 0, 0, 255, 255, 255, 255,
                       0, 255, 170, 0 >>) }
      [] digits = 16 ->
           { << FromBytes(<< 170, 170 >>), FromBytes(<< 170, 170 >>), {}, {},
                0..15, 0..15, FromBytes(<< 255, 0 >>), FromBytes(<< 0, 170 >>) >> }
      [] digits = 32 ->
           { << FromBytes(<< 0, 0, 0, 255 >>), 0..31, 0..31, {} >>,
             << FromBytes(<< 255, 255, 255, 0 >>), {}, {}, 0..31 >>,
             << RepByte(170, 32), {}, 0..31, FromBytes(<< 0, 170, 255, 0 >>) >> }
      [] digits = 64 ->
           { << FromBytes(<< 0, 0, 0, 0, 170, 170, 170, 170 >>),
                FromBytes(<< 0, 170, 255, 0, 255, 255, 255, 255 >>),
                FromBytes(<< 0, 255, 255, 255, 239, 190, 173, 222 >>) >> }

\* the words made of consecutive groups of digits / 8 bytes, least
\* significant byte first (little endian, README.md Endianess)
Pack(bytes) ==
    [ i \in 1..((8 * Len(bytes)) \div digits) |->
        FromBytes(SubSeq(bytes, (i - 1) * (digits \div 8) + 1, i * (digits \div 8))) ]

\* 16 bytes with a run at the limits of a run block: 71 zeros and 71 ones at
\* the start, 71 zeros after a single one, 72 zeros and 72 ones at the start
ThresholdBytes ==
    { << 0, 0, 0, 0, 0, 0, 0, 0, 128, 170, 170, 170, 170, 170, 170, 170 >>,
      << 255, 255, 255, 255, 255, 255, 255, 255, 127, 170, 170, 170, 170, 170, 170, 170 >>,
      << 1, 0, 0, 0, 0, 0, 0, 0, 0, 1, 170, 170, 170, 170, 170, 170 >>,
      << 0, 0, 0, 0, 0, 0, 0, 0, 0, 85, 85, 85, 85, 85, 85, 85 >>,
      << 255, 255, 255, 255, 255, 255, 255, 255, 255, 170, 170, 170, 170, 170, 170, 170 >> }

ThresholdInputs == { Pack(bytes) : bytes \in ThresholdBytes }

Inputs == SeqsUpTo(Alphabet, MaxWords) \cup RunInputs \cup TestInputs
            \cup ThresholdInputs

\* the blocks the decoder-only inputs are made of: two literals, runs of
\* 8 and 71 zeros and runs of 20 and 71 ones
BlockAlphabet == { 42, 127, 128, 191, 204, 255 }

\* the blocks of README.md: 20 ones, 36 zeros, a literal
ReadmeBlocks == << 204, 156, 42 >>

BlockInputs == SeqsUpTo(BlockAlphabet, MaxBlocks) \cup { ReadmeBlocks }

-----------------------------------------------------------------------------
(* The callers: roundtrip of tests/test.cpp 24-41 (encode, then decode what
   encode wrote) and decode of an arbitrary block sequence *)

Init ==
    /\ \/ /\ job = "roundtrip"
          /\ digits \in Widths
          /\ ub \in (IF digits >= 32 THEN { "masked", "zero" } ELSE { "none" })
          /\ pc = "encode"
          /\ data \in Inputs
          /\ rle = << >>
       \/ /\ job = "decode"
          /\ digits \in Widths
          /\ ub = "none"
          /\ pc = "decode"
          /\ data = << >>
          /\ rle \in BlockInputs
    /\ input = 1
    /\ e = new_encoder
    /\ d = new_decoder(1, Len(rle) + 1)
    /\ decoded = << >>
    /\ result = no_result
    /\ arg = 0
    /\ cli = no_cli
    /\ other = no_encoder

\* e.push( *input++ )
Push ==
    /\ pc = "encode"
    /\ input <= Len(data)
    /\ e' = push(e, data[input])
    /\ input' = input + 1
    /\ UNCHANGED << other, cli, arg, digits, ub, data, rle, d, decoded,
                    result, pc, job >>

\* return e.flush(), and the caller hands [ encode_buffer, encode_result )
\* to decode
Flush ==
    /\ pc = "encode"
    /\ input > Len(data)
    /\ e' = flush(e)
    /\ rle' = written(e')
    /\ d' = new_decoder(1, Len(rle') + 1)
    /\ pc' = "decode"
    /\ UNCHANGED << other, cli, arg, digits, ub, data, input, decoded,
                    result, job >>

\* result = d.pull(), and *output++ = result.data while it is a success
Pull ==
    /\ pc = "decode"
    /\ LET r == pull(d, rle)
       IN  /\ d' = r.d
           /\ result' = [ data |-> r.data, status |-> r.status ]
           /\ decoded' = IF r.status = "success" THEN Append(decoded, r.data)
                         ELSE decoded
           /\ pc' = IF r.status = "success" THEN "decode" ELSE "done"
    /\ UNCHANGED << other, cli, arg, digits, ub, data, input, e, rle, job >>

Next == Push \/ Flush \/ Pull

Spec == Init /\ [][Next]_vars

-----------------------------------------------------------------------------
(* The life of an encoder object: pushes, then flush() once or twice, or
   none, and the destructor at any point.  pc is "encode" while words are
   pushed, "flushed" and "flushed_twice" after the calls of flush(),
   "destroyed" after the destructor has run on a flushed encoder and
   "abandoned" after it has run on an encoder not flushed.  rle is the range
   of blocks [ begin, e.flush() ) the caller got from the first flush(). *)

LifeInputs == SeqsUpTo(Alphabet, MaxLifeWords) \cup RunInputs \cup TestInputs

InitLife ==
    /\ job = "lifecycle"
    /\ digits \in Widths
    /\ ub \in (IF digits >= 32 THEN { "masked", "zero" } ELSE { "none" })
    /\ pc = "encode"
    /\ data \in LifeInputs
    /\ rle = << >>
    /\ input = 1
    /\ e = new_encoder
    /\ d = new_decoder(1, 1)
    /\ decoded = << >>
    /\ result = no_result
    /\ arg = 0
    /\ cli = no_cli
    /\ other = no_encoder

\* e.flush(), at any point of the pushes
FlushCall ==
    /\ pc = "encode"
    /\ e' = flush(e)
    /\ rle' = written(e')
    /\ pc' = "flushed"
    /\ UNCHANGED << other, cli, arg, digits, ub, data, input, d, decoded,
                    result, job >>

\* e.flush() once more
FlushAgain ==
    /\ pc = "flushed"
    /\ e' = flush(e)
    /\ pc' = "flushed_twice"
    /\ UNCHANGED << other, cli, arg, digits, ub, data, input, rle, d,
                    decoded, result, job >>

\* e goes out of scope
Destroy ==
    /\ pc \in { "encode", "flushed", "flushed_twice" }
    /\ e' = destroy(e)
    /\ pc' = IF pc = "encode" THEN "abandoned" ELSE "destroyed"
    /\ UNCHANGED << other, cli, arg, digits, ub, data, input, rle, d,
                    decoded, result, job >>

NextLife == Push \/ FlushCall \/ FlushAgain \/ Destroy

Lifecycle == InitLife /\ [][NextLife]_vars

-----------------------------------------------------------------------------
(* The block format: a block is made of every count with make_zeros and
   make_ones, and of words with make_literal, and the decoder is run on the
   block made; the decoder is also run on every byte. *)

\* the words make_literal is called with: every value of the low byte, the
\* bits above it all clear or all set
LiteralWords == { Bits(n, 8) \cup hi : n \in 0..255, hi \in { {}, 8..(digits - 1) } }

InitFormat ==
    /\ digits \in Widths
    /\ ub = "none"
    /\ \/ /\ job \in { "make_zeros", "make_ones" }
          /\ arg \in min_brle_len..max_count
          /\ data = << >>
          /\ rle = << >>
          /\ pc = "make"
       \/ /\ job = "make_literal"
          /\ arg = 0
          /\ data \in { << w >> : w \in LiteralWords }
          /\ rle = << >>
          /\ pc = "make"
       \/ /\ job = "classify"
          /\ arg \in 0..255
          /\ data = << >>
          /\ rle = << arg >>
          /\ pc = "decode"
    /\ input = 1
    /\ e = new_encoder
    /\ d = new_decoder(1, Len(rle) + 1)
    /\ decoded = << >>
    /\ result = no_result
    /\ cli = no_cli
    /\ other = no_encoder

\* the block made is handed to a decoder
Made(b) ==
    /\ pc = "make"
    /\ rle' = << b >>
    /\ d' = new_decoder(1, 2)
    /\ pc' = "decode"
    /\ UNCHANGED << other, cli, arg, digits, ub, data, input, e, decoded,
                    result, job >>

MakeZeros   == job = "make_zeros" /\ Made(make_zeros(arg))
MakeOnes    == job = "make_ones" /\ Made(make_ones(arg))
MakeLiteral == job = "make_literal" /\ Made(make_literal(data[1]))

NextFormat == MakeZeros \/ MakeOnes \/ MakeLiteral \/ Pull

Format == InitFormat /\ [][NextFormat]_vars

-----------------------------------------------------------------------------
(* The encoder alone: words are pushed and flush() is called at any point.
   The words are made of bytes that form runs of 7 bits or fewer inside a
   word, and runs of 8 bits or more where some of them meet. *)

\* the words the encoder-only inputs are made of: 00.., FF.., AA.., 01..,
\* 80.. and 0F..
EncAlphabet ==
    { zero_word, ones_word, RepByte(170, digits), RepByte(1, digits),
      RepByte(128, digits), RepByte(15, digits) }

EncInputs == SeqsUpTo(EncAlphabet, MaxEncWords) \cup TestInputs \cup ThresholdInputs

InitEnc ==
    /\ job = "encode"
    /\ digits \in Widths
    /\ ub \in (IF digits >= 32 THEN { "masked", "zero" } ELSE { "none" })
    /\ pc = "encode"
    /\ data \in EncInputs
    /\ rle = << >>
    /\ input = 1
    /\ e = new_encoder
    /\ d = new_decoder(1, 1)
    /\ decoded = << >>
    /\ result = no_result
    /\ arg = 0
    /\ cli = no_cli
    /\ other = no_encoder

NextEnc == Push \/ FlushCall

Encoding == InitEnc /\ [][NextEnc]_vars

-----------------------------------------------------------------------------
(* A pipeline: an encoder writes its blocks to a buffer while it is pushed
   words, and a decoder of the same width reads the buffer: before every
   pull it is given, with set_input, the range from the block it is at to
   the output position of the encoder.  flush() is called at any point, and
   pc is "done" once a pull after it has returned Done. *)

InitPipe ==
    /\ job = "pipeline"
    /\ digits \in Widths
    /\ ub \in (IF digits >= 32 THEN { "masked", "zero" } ELSE { "none" })
    /\ pc = "encode"
    /\ data \in LifeInputs
    /\ rle = << >>
    /\ input = 1
    /\ e = new_encoder
    /\ d = new_decoder(1, 1)
    /\ decoded = << >>
    /\ result = no_result
    /\ arg = 0
    /\ cli = no_cli
    /\ other = no_encoder

\* d.set_input( d.get_input(), e.get_output() ); result = d.pull()
PipePull ==
    /\ pc \in { "encode", "flushed" }
    /\ LET r == pull(set_input(d, d.input, e.output), e.sink)
       IN  /\ d' = r.d
           /\ result' = [ data |-> r.data, status |-> r.status ]
           /\ decoded' = IF r.status = "success" THEN Append(decoded, r.data)
                         ELSE decoded
           /\ pc' = IF pc = "flushed" /\ r.status = "done" THEN "done" ELSE pc
    /\ UNCHANGED << other, cli, arg, digits, ub, data, input, e, rle, job >>

NextPipe == Push \/ FlushCall \/ PipePull

Pipeline == InitPipe /\ [][NextPipe]_vars

-----------------------------------------------------------------------------
(* The same bytes encoded at two widths: a sequence of bytes is encoded as
   uint8_t words, job = "bytes", and the blocks written are kept in rle;
   then the bytes are grouped, low byte first, into words of 16, 32 or 64
   bits, and these are encoded by a new encoder, job = "words". *)

ByteAlphabet == { Bits(0, 8), Bits(255, 8), Bits(170, 8), Bits(1, 8) }

\* the byte sequences of an even length
EvenSeqs(S, pairs) == { bs \in SeqsUpTo(S, 2 * pairs) : Len(bs) % 2 = 0 }

\* 4 or 8 equal bytes followed by 4 or 8 equal bytes
RunBytes ==
    { Repeat(x, a) \o Repeat(y, b) :
        x \in { Bits(0, 8), Bits(255, 8), Bits(170, 8) },
        y \in { Bits(0, 8), Bits(255, 8), Bits(170, 8) },
        a \in { 4, 8 }, b \in { 4, 8 } }

ByteInputs ==
    EvenSeqs(ByteAlphabet, MaxPairs) \cup RunBytes
      \cup { Words8(bytes) : bytes \in ThresholdBytes }
      \cup { Words8(<< 255, 255, 15, 0, 0, 0, 0, 170 >>) }

\* the words of w bits made of consecutive groups of w / 8 bytes, the low
\* byte first
Regrouped(bytes, w) ==
    [ i \in 1..((8 * Len(bytes)) \div w) |->
        { n \in 0..(w - 1) :
            (n % 8) \in bytes[(i - 1) * (w \div 8) + (n \div 8) + 1] } ]

InitRegroup ==
    /\ job = "bytes"
    /\ digits = 8
    /\ ub = "none"
    /\ pc = "encode"
    /\ data \in ByteInputs
    /\ rle = << >>
    /\ input = 1
    /\ e = new_encoder
    /\ d = new_decoder(1, 1)
    /\ decoded = << >>
    /\ result = no_result
    /\ arg = 0
    /\ cli = no_cli
    /\ other = no_encoder

\* return e.flush(), of the encoder of the bytes
FlushBytes ==
    /\ job = "bytes"
    /\ pc = "encode"
    /\ input > Len(data)
    /\ e' = flush(e)
    /\ rle' = written(e')
    /\ pc' = "flushed"
    /\ UNCHANGED << other, cli, arg, digits, ub, data, input, d, decoded,
                    result, job >>

\* the bytes are taken as words of w bits and handed to a new encoder
Regroup ==
    /\ job = "bytes"
    /\ pc = "flushed"
    /\ \E w \in Widths \ { 8 } :
         /\ Len(data) > 0
         /\ (8 * Len(data)) % w = 0
         /\ digits' = w
         /\ ub' \in (IF w >= 32 THEN { "masked", "zero" } ELSE { "none" })
         /\ data' = Regrouped(data, w)
    /\ e' = new_encoder
    /\ input' = 1
    /\ pc' = "encode"
    /\ job' = "words"
    /\ UNCHANGED << other, cli, arg, rle, d, decoded, result >>

\* return e.flush(), of the encoder of the words
FlushWords ==
    /\ job = "words"
    /\ pc = "encode"
    /\ input > Len(data)
    /\ e' = flush(e)
    /\ pc' = "reencoded"
    /\ UNCHANGED << other, cli, arg, digits, ub, data, input, rle, d,
                    decoded, result, job >>

NextRegroup == Push \/ FlushBytes \/ Regroup \/ FlushWords

Regrouping == InitRegroup /\ [][NextRegroup]_vars

-----------------------------------------------------------------------------
(* A run of the utility on a command line: the option loop of main, one
   iteration at a time, the operands, and the transformation.  data is the
   content of the input (the file or standard input); the blocks written by
   an encode are left in rle and the bytes written by a decode in decoded. *)

\* the arguments the command lines are made of: -e, -d, -eded, -h, -x, --,
\* - and a file name
Tokens ==
    { << "-", "e" >>, << "-", "d" >>, << "-", "e", "d", "e", "d" >>,
      << "-", "h" >>, << "-", "x" >>, << "-", "-" >>, << "-" >>, << "f" >> }

CommandLines == SeqsUpTo(Tokens, MaxArgs)

\* what is found behind the last argument string
Beyond == { << >>, << "?" >> }

InitCli ==
    /\ job = "main"
    /\ digits = 8
    /\ ub = "none"
    /\ pc = "main"
    /\ data = Words8(<< 204, 156, 42 >>)
    /\ rle = << >>
    /\ input = 1
    /\ e = new_encoder
    /\ d = new_decoder(1, 1)
    /\ decoded = << >>
    /\ result = no_result
    /\ arg = 0
    /\ cli \in { new_main(args) : args \in CommandLines }
    /\ other = no_encoder

\* one iteration of the option loop of main
ReadOption ==
    /\ cli.at = "options"
    /\ LET r == read_option(cli.opts)
           m == [ cli EXCEPT !.opts = r.o ]
       IN  cli' = CASE r.c = NUL -> [ m EXCEPT !.at = "operands" ]
                    [] r.c = "e" -> set_direction(m, "e")
                    [] r.c = "d" -> set_direction(m, "d")
                    [] r.c = "h" -> [ m EXCEPT !.helped = TRUE ]
                    [] OTHER     -> exit(m, "EINVAL")
    /\ UNCHANGED << other, arg, digits, ub, data, input, e, rle, d, decoded,
                    result, pc, job >>

\* input = opts.read_argument(); output = opts.read_argument(); and the
\* checks of the two
ReadOperands ==
    /\ cli.at = "operands"
    /\ \E beyond \in Beyond :
         LET a == read_argument(cli.opts, beyond)
             b == read_argument(a.o, beyond)
             m == [ cli EXCEPT !.opts = b.o, !.input = a.s, !.output = b.s ]
         IN  cli' = IF a.s = << >> \/ b.s = << >>
                    THEN exit(m, "EINVAL")
                    ELSE [ m EXCEPT !.at = "open" ]
    /\ UNCHANGED << other, arg, digits, ub, data, input, e, rle, d, decoded,
                    result, pc, job >>

\* the files are opened, which fails or not for a name, and the input is
\* encoded or decoded
Transform ==
    /\ cli.at = "open"
    /\ \E in_ok \in BOOLEAN, out_ok \in BOOLEAN :
         LET in_file  == IF cli.input = << "-" >> THEN "stdin"
                         ELSE IF in_ok THEN "file" ELSE "none"
             out_file == IF cli.output = << "-" >> THEN "stdout"
                         ELSE IF out_ok THEN "file" ELSE "none"
             m        == [ cli EXCEPT !.in_file = in_file, !.out_file = out_file ]
         IN  IF in_file = "none" \/ out_file = "none"
             THEN /\ cli' = exit(m, "errno")
                  /\ UNCHANGED << e, rle, decoded >>
             ELSE /\ cli' = [ m EXCEPT !.at = "done", !.status = "0" ]
                  /\ IF cli.direction = "e"
                     THEN /\ e' = encode(data)
                          /\ rle' = written(e')
                          /\ decoded' = decoded
                     ELSE /\ decoded' = decode([ i \in 1..Len(data) |-> Val(data[i]) ])
                          /\ UNCHANGED << e, rle >>
    /\ UNCHANGED << other, arg, digits, ub, data, input, d, result, pc, job >>

NextCli == ReadOption \/ ReadOperands \/ Transform

Cli == InitCli /\ [][NextCli]_vars

-----------------------------------------------------------------------------
(* A decoder resumed: the blocks reach the decoder in two ranges.  The
   decoder is constructed on the first arg blocks and pulled until Done,
   pc = "prefix" and then "exhausted"; set_input hands it the blocks that
   remain, and it is pulled until Done again, pc = "decode" and then "done".
   After a Done the caller may pull once more, or more often, without a new
   range: pc = "exhausted_again", "done_again". *)

InitResume ==
    /\ job = "resume"
    /\ digits \in Widths
    /\ ub = "none"
    /\ pc = "prefix"
    /\ data = << >>
    /\ rle \in BlockInputs
    /\ arg \in 0..Len(rle)
    /\ input = 1
    /\ e = new_encoder
    /\ d = new_decoder(1, arg + 1)
    /\ decoded = << >>
    /\ result = no_result
    /\ cli = no_cli
    /\ other = no_encoder

\* result = d.pull(), and *output++ = result.data while it is a success;
\* the caller goes on at ok after a success and at end after a Done
PullTo(ok, end) ==
    /\ LET r == pull(d, rle)
       IN  /\ d' = r.d
           /\ result' = [ data |-> r.data, status |-> r.status ]
           /\ decoded' = IF r.status = "success" THEN Append(decoded, r.data)
                         ELSE decoded
           /\ pc' = IF r.status = "success" THEN ok ELSE end
    /\ UNCHANGED << other, cli, arg, digits, ub, data, input, e, rle, job >>

\* a pull on the first range
PullPrefix == pc = "prefix" /\ PullTo("prefix", "exhausted")

\* d.set_input( input_, last_ ) with the blocks that remain
SetInput ==
    /\ pc \in { "exhausted", "exhausted_again" }
    /\ d' = set_input(d, arg + 1, Len(rle) + 1)
    /\ pc' = "decode"
    /\ UNCHANGED << other, cli, arg, digits, ub, data, input, e, rle,
                    decoded, result, job >>

\* a pull after a pull on the same range has returned Done
PullAgain ==
    \/ pc \in { "exhausted", "exhausted_again" }
         /\ PullTo("prefix", "exhausted_again")
    \/ pc \in { "done", "done_again" }
         /\ PullTo("decode", "done_again")

NextResume == PullPrefix \/ SetInput \/ Pull \/ PullAgain

Resumption == InitResume /\ [][NextResume]_vars

-----------------------------------------------------------------------------
(* An encoder used again: words are pushed and flush() is called, at any
   point of the pushes; then the words that remain are pushed into the same
   encoder, pc = "reuse", and flush() is called at any point once more,
   pc = "reflushed".  arg is the number of words pushed before the first
   flush(), and rle the blocks [ begin, e.flush() ) the caller got from it. *)

InitReuse ==
    /\ job = "reuse"
    /\ digits \in Widths
    /\ ub \in (IF digits >= 32 THEN { "masked", "zero" } ELSE { "none" })
    /\ pc = "encode"
    /\ data \in LifeInputs
    /\ rle = << >>
    /\ input = 1
    /\ e = new_encoder
    /\ d = new_decoder(1, 1)
    /\ decoded = << >>
    /\ result = no_result
    /\ arg = 0
    /\ cli = no_cli
    /\ other = no_encoder

\* e.flush() after the first sequence of words
FlushFirst ==
    /\ pc = "encode"
    /\ e' = flush(e)
    /\ rle' = written(e')
    /\ arg' = input - 1
    /\ pc' = "reuse"
    /\ UNCHANGED << other, cli, digits, ub, data, input, d, decoded, result,
                    job >>

\* e.push( *input++ ) on the encoder that was flushed
PushMore ==
    /\ pc = "reuse"
    /\ input <= Len(data)
    /\ e' = push(e, data[input])
    /\ input' = input + 1
    /\ UNCHANGED << other, cli, arg, digits, ub, data, rle, d, decoded,
                    result, pc, job >>

\* e.flush() after the second sequence of words
FlushSecond ==
    /\ pc = "reuse"
    /\ e' = flush(e)
    /\ pc' = "reflushed"
    /\ UNCHANGED << other, cli, arg, digits, ub, data, input, rle, d,
                    decoded, result, job >>

NextReuse == Push \/ FlushFirst \/ PushMore \/ FlushSecond

Reuse == InitReuse /\ [][NextReuse]_vars

-----------------------------------------------------------------------------
(* An encoder moved: words are pushed into an encoder, at any point a new
   encoder e is move-constructed from it, the words that remain are pushed
   into e, and both objects are destroyed, in either order.  pc is "moved"
   while both objects live, "other_destroyed" and "new_destroyed" when one
   of them lives, and "both_destroyed".  Both objects write to the same
   memory, e.sink. *)

InitMove ==
    /\ job = "move"
    /\ digits \in Widths
    /\ ub \in (IF digits >= 32 THEN { "masked", "zero" } ELSE { "none" })
    /\ pc = "encode"
    /\ data \in LifeInputs
    /\ rle = << >>
    /\ input = 1
    /\ e = new_encoder
    /\ d = new_decoder(1, 1)
    /\ decoded = << >>
    /\ result = no_result
    /\ arg = 0
    /\ cli = no_cli
    /\ other = no_encoder

\* encoder e( std::move( other ) )
MoveConstruct ==
    /\ pc = "encode"
    /\ e' = move_construct(e).new
    /\ other' = move_construct(e).other
    /\ arg' = input - 1
    /\ pc' = "moved"
    /\ UNCHANGED << cli, digits, ub, data, input, rle, d, decoded, result, job >>

\* e.push( *input++ ) on the new encoder
PushMoved ==
    /\ pc \in { "moved", "other_destroyed" }
    /\ input <= Len(data)
    /\ e' = push(e, data[input])
    /\ input' = input + 1
    /\ UNCHANGED << other, cli, arg, digits, ub, data, rle, d, decoded, result, pc,
                    job >>

\* the encoder moved from goes out of scope
DestroyOther ==
    /\ pc \in { "moved", "new_destroyed" }
    /\ LET t == destroy([ other EXCEPT !.sink = e.sink ])
       IN  /\ other' = t
           /\ e' = [ e EXCEPT !.sink = t.sink ]
    /\ pc' = IF pc = "moved" THEN "other_destroyed" ELSE "both_destroyed"
    /\ UNCHANGED << cli, arg, digits, ub, data, input, rle, d, decoded, result, job >>

\* the new encoder goes out of scope
DestroyNew ==
    /\ pc \in { "moved", "other_destroyed" }
    /\ e' = destroy(e)
    /\ pc' = IF pc = "moved" THEN "new_destroyed" ELSE "both_destroyed"
    /\ UNCHANGED << other, cli, arg, digits, ub, data, input, rle, d, decoded, result,
                    job >>

NextMove == Push \/ MoveConstruct \/ PushMoved \/ DestroyOther \/ DestroyNew

Moving == InitMove /\ [][NextMove]_vars

-----------------------------------------------------------------------------
(* The run counter: countr_zero and countr_one, of the standard library and
   the surrogates, are called on a value, data[1], and arg is the count
   returned.  The values are all values of 8 and 16 bits, and for 32 and 64
   bits every pattern of MaxCountBits bits at every position, with the bits
   below it clear or set and the bits above it clear or set. *)

CountInputs ==
    IF digits <= 16 THEN SUBSET (0..(digits - 1))
    ELSE { (IF below THEN 0..(k - 1) ELSE {})
             \cup ShlW(pattern, k, digits)
             \cup (IF above THEN (k + MaxCountBits)..(digits - 1) ELSE {}) :
             pattern \in SUBSET (0..(MaxCountBits - 1)),
             k \in 0..(digits - 1),
             below \in BOOLEAN, above \in BOOLEAN }

InitCount ==
    /\ job \in { "countr_zero", "countr_one" }
    /\ digits \in Widths
    /\ ub = "none"
    /\ pc = "count"
    /\ data \in { << v >> : v \in CountInputs }
    /\ rle = << >>
    /\ input = 1
    /\ e = new_encoder
    /\ d = new_decoder(1, 1)
    /\ decoded = << >>
    /\ result = no_result
    /\ arg = 0
    /\ cli = no_cli
    /\ other = no_encoder

\* the count is returned: the caller is at std after a call of the standard
\* library and at surrogate after a call of the surrogate
Counted(n, build) ==
    /\ pc = "count"
    /\ arg' = n
    /\ pc' = build
    /\ UNCHANGED << other, cli, digits, ub, data, input, e, rle, d, decoded, result,
                    job >>

CountrZero == job = "countr_zero" /\ Counted(countr_zero(data[1]), "std")
CountrOne  == job = "countr_one" /\ Counted(countr_one(data[1]), "std")

CountrZeroSurrogate ==
    job = "countr_zero" /\ Counted(countr_zero_surrogate(data[1]), "surrogate")

CountrOneSurrogate ==
    job = "countr_one" /\ Counted(countr_one_surrogate(data[1]), "surrogate")

NextCount == CountrZero \/ CountrOne \/ CountrZeroSurrogate \/ CountrOneSurrogate

Counting == InitCount /\ [][NextCount]_vars

-----------------------------------------------------------------------------
(* The block format as README.md describes it (Block format: Literal, Zeros,
   Ones), the reference the claims are stated against.  A bit sequence is a
   sequence of 0 and 1, earliest bit first. *)

IsRun(b)    == b >= 128
RunValue(b) == IF b >= 192 THEN 1 ELSE 0
RunCount(b) == (b % 64) + 8

\* the number of bits a block stands for
BlockLen(b) ==
    IF ~IsRun(b) THEN 7
    ELSE IF RunCount(b) < 71 THEN RunCount(b) + 1 ELSE 71

\* the bits a block stands for
Expand(b) ==
    IF ~IsRun(b)
    THEN [ i \in 1..7 |-> (b \div (2 ^ (i - 1))) % 2 ]
    ELSE [ i \in 1..BlockLen(b) |->
             IF i <= RunCount(b) THEN RunValue(b) ELSE 1 - RunValue(b) ]

RECURSIVE ExpandAll(_)
ExpandAll(bs) ==
    IF bs = << >> THEN << >> ELSE Expand(Head(bs)) \o ExpandAll(Tail(bs))

RECURSIVE TotalLen(_)
TotalLen(bs) == IF bs = << >> THEN 0 ELSE BlockLen(Head(bs)) + TotalLen(Tail(bs))

\* the number of bits the blocks before the k-th stand for
Start(bs, k) == TotalLen(SubSeq(bs, 1, k - 1))

\* the bit sequence of a word sequence: bit 0 of each word first
BitsOf(ws) ==
    [ i \in 1..(digits * Len(ws)) |->
        IF ((i - 1) % digits) \in ws[((i - 1) \div digits) + 1] THEN 1 ELSE 0 ]

\* the first n bits of a word
LowBits(w, n) == [ i \in 1..n |-> IF (i - 1) \in w THEN 1 ELSE 0 ]

CeilDiv(a, b) == (a + b - 1) \div b

-----------------------------------------------------------------------------
(* C1 *)

\* C1: round trip: when the caller of roundtrip has encoded its words and
\* decoded the blocks written, the decoded words are the words encoded,
\* for every word width.
RoundTrip == (job = "roundtrip" /\ pc = "done") => decoded = data

\* The round trip on the builds whose shifts are all defined or yield 0.
RoundTripUnlessMasked ==
    (job = "roundtrip" /\ pc = "done" /\ ub # "masked") => decoded = data

-----------------------------------------------------------------------------
(* C2 *)

\* the blocks the decoder has read
Consumed == SubSeq(rle, 1, d.input - 1)

\* the bits the decoder has produced: the words returned, then the bits in
\* its carry buffer
Materialized == BitsOf(decoded) \o LowBits(d.buffer, d.buffer_size)

\* the bits of the run block being decoded that are still to be produced
Pending ==
    CASE d.state = "read" -> 0
      [] d.state \in { "zeros", "ones" } -> d.rlen + 1
      [] d.state \in { "zeros_max", "ones_max" } -> d.rlen

RECURSIVE RunsStuffed(_, _, _)
\* every run block of bs, the first of which starts after st bits, has its
\* count bits and its terminator, if it has one, in the bit sequence mat, as
\* far as mat reaches
RunsStuffed(bs, st, mat) ==
    \/ bs = << >>
    \/ LET b == Head(bs)
           n == Min(BlockLen(b), Len(mat) - st)
       IN  /\ IsRun(b) =>
                \A j \in 1..n :
                  mat[st + j] = (IF j <= RunCount(b) THEN RunValue(b)
                                 ELSE 1 - RunValue(b))
           /\ RunsStuffed(Tail(bs), st + BlockLen(b), mat)

\* C2: bit-stuffing on decode.  Every run block the decoder has read
\* contributes, at the place in the decoded bit sequence where the blocks
\* before it end, count bits of its value followed by exactly one bit of the
\* opposite value when count < 71, and exactly 71 bits of its value and no
\* terminator when count = 71; the bits produced and those of the run still
\* to be produced add up to the bits of the blocks read.
BitStuffing ==
    pc \in { "decode", "done" } =>
      /\ Len(Materialized) + Pending = TotalLen(Consumed)
      /\ RunsStuffed(Consumed, 0, Materialized)

\* a run of 20 ones decoded at a carry-buffer offset other than 0, spanning
\* several 8-bit words, together with a run of 71
BitStuffingWitness ==
    /\ job = "decode"
    /\ pc = "done"
    /\ digits = 8
    /\ \E k \in 1..Len(rle) : rle[k] = 204 /\ Start(rle, k) % 8 # 0
    /\ \E k \in 1..Len(rle) : rle[k] \in { 191, 255 }

-----------------------------------------------------------------------------
(* C3 *)

\* C3: worst-case size.  At every point of encode, the blocks written so far
\* (by the pushes and, once it has run, by flush) are at most
\* ceil(N * W / 7), N the number of words pushed so far.
SizeBound ==
    job = "roundtrip" =>
      /\ Len(e.sink) = e.output - 1
      /\ e.output - 1 <= CeilDiv((input - 1) * digits, 7)

\* two or more words encoded to exactly ceil(N * W / 7) blocks, the last one
\* written by flush
SizeBoundWitness ==
    /\ job = "roundtrip"
    /\ pc = "decode"
    /\ Len(data) >= 2
    /\ (Len(data) * digits) % 7 # 0
    /\ Len(rle) = CeilDiv(Len(data) * digits, 7)

-----------------------------------------------------------------------------
(* C4 *)

-----------------------------------------------------------------------------
(* C5 *)

\* the data of README.md, Encode
ReadmeData == Words8(<< 255, 255, 15, 0, 0, 0, 0, 170 >>)

\* C5: the README scenario.  Encoding the 8-bit words FF FF 0F 00 00 00 00 AA
\* writes exactly the blocks CC 9C 2A, and decoding these blocks with 8-bit
\* words returns exactly the 8 words.
ReadmeScenario ==
    /\ (job = "roundtrip" /\ digits = 8 /\ data = ReadmeData
          /\ pc \in { "decode", "done" }) => rle = ReadmeBlocks
    /\ (digits = 8 /\ rle = ReadmeBlocks /\ pc = "done") => decoded = ReadmeData

\* the README data has been encoded and decoded again
ReadmeWitness ==
    /\ job = "roundtrip"
    /\ digits = 8
    /\ data = ReadmeData
    /\ pc = "done"
    /\ Len(decoded) = 8

-----------------------------------------------------------------------------
(* C6 *)

\* C6: number of decoded words.  When decode has returned, it has written
\* floor(B / W) words, B the number of bits the blocks stand for; the README
\* blocks give 8 words of 8 bits and 4 words of 16 bits.
DecodedCount ==
    pc = "done" =>
      /\ Len(decoded) = TotalLen(rle) \div digits
      /\ rle = ReadmeBlocks =>
           /\ digits = 8 => Len(decoded) = 8
           /\ digits = 16 => Len(decoded) = 4

\* the README blocks decoded with 16-bit words
DecodedCountWitness ==
    /\ job = "decode"
    /\ pc = "done"
    /\ digits = 16
    /\ rle = ReadmeBlocks
    /\ TotalLen(rle) % digits # 0

-----------------------------------------------------------------------------
(* C7 *)

\* C7: bit order of decoded words.  The words decode has written are the
\* consecutive W-bit slices of the concatenated expansions of the blocks,
\* bit 0 of a word being the earliest bit of its slice, and every word
\* written is complete: all its bits come from blocks already read.
BitOrder ==
    pc \in { "decode", "done" } =>
      LET stream == ExpandAll(rle)
      IN  /\ Len(decoded) * digits <= TotalLen(Consumed)
          /\ BitsOf(decoded) = SubSeq(stream, 1, Len(decoded) * digits)
          /\ result.status = "success" => result.data = decoded[Len(decoded)]

\* two words or more have been returned from blocks that hold a literal
\* split between two words
BitOrderWitness ==
    /\ job = "decode"
    /\ pc = "done"
    /\ Len(decoded) >= 2
    /\ \E k \in 1..Len(rle) :
         /\ ~IsRun(rle[k])
         /\ Start(rle, k) \div digits # (Start(rle, k) + 6) \div digits
         /\ (Start(rle, k) + 6) \div digits < Len(decoded)

-----------------------------------------------------------------------------
(* C8 *)

\* the blocks the encoder has written so far and the bits pushed so far
Written == written(e)
Pushed  == BitsOf(SubSeq(data, 1, input - 1))

RECURSIVE RunsTerminated(_, _, _)
\* every run block of bs with a count below 71, the first block of bs starting
\* after st bits, stands for count identical bits of the sequence bits that
\* are followed in bits by one bit of the opposite value
RunsTerminated(bs, st, bits) ==
    IF bs = << >> THEN TRUE
    ELSE LET b == Head(bs)
             c == RunCount(b)
         IN  /\ (IsRun(b) /\ c < 71) =>
                  /\ st + c + 1 <= Len(bits)
                  /\ \A i \in 1..c : bits[st + i] = RunValue(b)
                  /\ bits[st + c + 1] = 1 - RunValue(b)
             /\ RunsTerminated(Tail(bs), st + BlockLen(b), bits)

\* C8: encoder-side bit stuffing.  Every run block with a count below 71 that
\* the pushes have written stands for count identical bits of the pushed bit
\* sequence, followed in the pushed bit sequence by one bit of the opposite
\* value, which the block consumes.
EncoderStuffing ==
    (job = "roundtrip" /\ pc = "encode") => RunsTerminated(Written, 0, Pushed)

\* the same, for the builds that do not leave the shifted word in the buffer
EncoderStuffingUnlessMasked ==
    ub # "masked" => EncoderStuffing

-----------------------------------------------------------------------------
(* C9 *)

RECURSIVE RunsAreLong(_, _, _)
\* every run block of bs, the first block of bs starting after st bits, has a
\* count in [8, 71] and starts at 8 identical bits of its value in bits
RunsAreLong(bs, st, bits) ==
    IF bs = << >> THEN TRUE
    ELSE LET b == Head(bs)
         IN  /\ IsRun(b) =>
                  /\ count(b) \in min_brle_len..max_count
                  /\ st + min_brle_len <= Len(bits)
                  /\ \A i \in 1..min_brle_len : bits[st + i] = RunValue(b)
             /\ RunsAreLong(Tail(bs), st + BlockLen(b), bits)

\* C9: run-block count range.  The assertions of make_zeros and make_ones
\* never fail, every run block written has a count in [8, 71] and stands for
\* a run of 8 or more identical pushed bits, and between the operations
\* state = init iff rlen = 0, and state in { zeros, ones } implies
\* 8 <= rlen <= 70.
RunCountRange ==
    job = "roundtrip" =>
      /\ e.asserts_ok
      /\ RunsAreLong(Written, 0, Pushed)
      /\ e.state = "init" <=> e.rlen = 0
      /\ e.state \in { "zeros", "ones" } =>
           (min_brle_len <= e.rlen /\ e.rlen <= max_count - 1)

\* a run block of count 8 and one of count 71 have been written and a run is
\* pending between two pushes
RunCountRangeWitness ==
    /\ job = "roundtrip"
    /\ pc = "encode"
    /\ \E k \in 1..Len(Written) : IsRun(Written[k]) /\ count(Written[k]) = min_brle_len
    /\ \E k \in 1..Len(Written) : IsRun(Written[k]) /\ count(Written[k]) = max_count
    /\ e.state \in { "zeros", "ones" }

-----------------------------------------------------------------------------
(* C10 *)

\* a run of exactly 8 identical bits begins after the first p bits of bits
ExactRun(bits, p) ==
    /\ p + min_brle_len <= Len(bits)
    /\ \A i \in 2..min_brle_len : bits[p + i] = bits[p + 1]
    /\ p > 0 => bits[p] # bits[p + 1]
    /\ p + min_brle_len < Len(bits) => bits[p + min_brle_len + 1] # bits[p + 1]

RECURSIVE BlockStarts(_, _)
\* the blocks of bs, each with the number of bits the blocks before it stand
\* for, the first block of bs starting after st bits
BlockStarts(bs, st) ==
    IF bs = << >> THEN { }
    ELSE { << st, Head(bs) >> } \cup BlockStarts(Tail(bs), st + BlockLen(Head(bs)))

\* b is the run block of count 8 for the bit value v
IsRunOfEight(b, v) == IsRun(b) /\ RunValue(b) = v /\ RunCount(b) = min_brle_len

\* C10, as claimed: every run of exactly 8 identical bits of the input is
\* encoded as a run block of count 8.
RunOfEightIsBlock ==
    (job = "roundtrip" /\ pc = "decode") =>
      LET bits   == BitsOf(data)
          blocks == BlockStarts(rle, 0)
      IN  \A p \in 0..(Len(bits) - min_brle_len) :
            ExactRun(bits, p) =>
              \E sb \in blocks : sb[1] = p /\ IsRunOfEight(sb[2], bits[p + 1])

\* C10, amended: a run of exactly 8 identical bits that begins where a block
\* begins is encoded as a run block of count 8.
RunOfEightAtBlockStart ==
    (job = "roundtrip" /\ pc = "decode") =>
      LET bits   == BitsOf(data)
          blocks == BlockStarts(rle, 0)
      IN  \A sb \in blocks :
            ExactRun(bits, sb[1]) => IsRunOfEight(sb[2], bits[sb[1] + 1])

\* a run of exactly 8 bits that begins after other blocks, where a block
\* begins, has been encoded
RunOfEightWitness ==
    /\ job = "roundtrip"
    /\ pc = "decode"
    /\ \E sb \in BlockStarts(rle, 0) :
         /\ sb[1] > 0
         /\ ExactRun(BitsOf(data), sb[1])
         /\ IsRunOfEight(sb[2], BitsOf(data)[sb[1] + 1])

-----------------------------------------------------------------------------
(* C11 *)

\* a run of exactly n identical bits begins after the first p bits of bits
ExactRunOf(bits, p, n) ==
    /\ p + n <= Len(bits)
    /\ \A i \in 2..n : bits[p + i] = bits[p + 1]
    /\ p > 0 => bits[p] # bits[p + 1]
    /\ p + n < Len(bits) => bits[p + n + 1] # bits[p + 1]

\* b is the run block of count c for the bit value v
IsRunBlock(b, v, c) == IsRun(b) /\ RunValue(b) = v /\ RunCount(b) = c

\* C11, as claimed: a run of 72 identical bits is encoded as a run block of
\* count 71 followed by a run block of count 9.
RunOf72IsTwoRuns ==
    (job = "roundtrip" /\ pc = "done") =>
      LET bits   == BitsOf(data)
          blocks == BlockStarts(rle, 0)
      IN  \A p \in 0..(Len(bits) - 72) :
            ExactRunOf(bits, p, 72) =>
              /\ \E sb \in blocks : sb[1] = p /\ IsRunBlock(sb[2], bits[p + 1], 71)
              /\ \E sb \in blocks : sb[1] = p + 71 /\ IsRunBlock(sb[2], bits[p + 1], 9)

\* C11, amended: a run of 72 identical bits that begins where a block begins
\* is encoded as a run block of count 71 followed by a literal, whose bit 0
\* is the last bit of the run.
RunOf72AtBlockStart ==
    (job = "roundtrip" /\ pc = "done") =>
      LET bits   == BitsOf(data)
          blocks == BlockStarts(rle, 0)
      IN  \A sb \in blocks :
            ExactRunOf(bits, sb[1], 72) =>
              /\ IsRunBlock(sb[2], bits[sb[1] + 1], 71)
              /\ \E nx \in blocks :
                   /\ nx[1] = sb[1] + 71
                   /\ ~IsRun(nx[2])
                   /\ nx[2] % 2 = bits[sb[1] + 1]

\* a run of 72 bits that begins where a block begins has been encoded, of
\* zeros in bytes and of ones in wider words
RunOf72Witness ==
    /\ job = "roundtrip"
    /\ pc = "done"
    /\ \E sb \in BlockStarts(rle, 0) : ExactRunOf(BitsOf(data), sb[1], 72)

-----------------------------------------------------------------------------
(* C12 *)

\* the first bit the block after the one at sb stands for is the bit of bits
\* that follows the n bits at sb, if there is one
NextBlockTakes(blocks, bits, p, n) ==
    p + n < Len(bits) =>
      \E nx \in blocks : nx[1] = p + n /\ Expand(nx[2])[1] = bits[p + n + 1]

\* C12, as claimed: every run of exactly 71 identical bits is encoded as a
\* single run block of count 71, and the bit after the run is encoded by the
\* next block.
RunOf71IsBlock ==
    (job = "roundtrip" /\ pc = "done") =>
      LET bits   == BitsOf(data)
          blocks == BlockStarts(rle, 0)
      IN  \A p \in 0..(Len(bits) - 71) :
            ExactRunOf(bits, p, 71) =>
              /\ \E sb \in blocks : sb[1] = p /\ IsRunBlock(sb[2], bits[p + 1], 71)
              /\ NextBlockTakes(blocks, bits, p, 71)

\* C12, amended: a run of exactly 71 identical bits that begins where a block
\* begins is encoded as a single run block of count 71, and the bit after the
\* run is the first bit of the next block.
RunOf71AtBlockStart ==
    (job = "roundtrip" /\ pc = "done") =>
      LET bits   == BitsOf(data)
          blocks == BlockStarts(rle, 0)
      IN  \A sb \in blocks :
            ExactRunOf(bits, sb[1], 71) =>
              /\ IsRunBlock(sb[2], bits[sb[1] + 1], 71)
              /\ NextBlockTakes(blocks, bits, sb[1], 71)

\* a run of exactly 71 bits that begins where a block begins and is followed
\* by further bits has been encoded
RunOf71Witness ==
    /\ job = "roundtrip"
    /\ pc = "done"
    /\ \E sb \in BlockStarts(rle, 0) :
         /\ ExactRunOf(BitsOf(data), sb[1], 71)
         /\ sb[1] + 71 < digits * Len(data)

-----------------------------------------------------------------------------
(* C13 *)

\* data is one or more words that are all w
AllWords(w) == Len(data) >= 1 /\ \A i \in 1..Len(data) : data[i] = w

\* every block of bs stands for bits of the value v only, but for the bit
\* stuffed after a last run block and the padding of a last literal, which
\* holds the last bits of the n bits encoded
OnlyBlocksOf(bs, v, n) ==
    \A k \in 1..Len(bs) :
      IF IsRun(bs[k])
      THEN /\ RunValue(bs[k]) = v
           /\ RunCount(bs[k]) >= min_brle_len
           /\ RunCount(bs[k]) < max_count => k = Len(bs)
      ELSE LET left == n - (TotalLen(bs) - 7)
           IN  /\ k = Len(bs)
               /\ left \in 1..7
               /\ bs[k] = IF v = 1 THEN (2 ^ left) - 1 ELSE 0

\* C13: all-zero and all-one inputs.  N >= 1 all-zero (or all-one) words of
\* any width are encoded without a failed assertion into run blocks of the
\* same value with counts of 8 or more, the one written by flush included,
\* and decode returns the N words.
UniformRoundTrip ==
    (job = "roundtrip" /\ (AllWords(zero_word) \/ AllWords(ones_word))) =>
      /\ e.asserts_ok
      /\ pc \in { "decode", "done" } =>
           /\ OnlyBlocksOf(rle, IF AllWords(ones_word) THEN 1 ELSE 0,
                           digits * Len(data))
           /\ TotalLen(rle) >= digits * Len(data)
           /\ TotalLen(rle) <= digits * Len(data) + 6
      /\ pc = "done" => decoded = data

\* two or more all-one words of 32 or 64 bits have made the round trip, and
\* flush has written the last run block
UniformWitness ==
    /\ job = "roundtrip"
    /\ pc = "done"
    /\ digits >= 32
    /\ Len(data) >= 2
    /\ AllWords(ones_word)
    /\ IsRun(rle[Len(rle)])
    /\ RunCount(rle[Len(rle)]) < max_count

-----------------------------------------------------------------------------
(* C14 *)

\* the words pushed so far
PushedWords == SubSeq(data, 1, input - 1)

\* C14: exactly-once finalization.  Once the destructor has run, the blocks
\* written are those of the pushes followed by one flush(): the destructor
\* of an encoder not flushed writes what flush() would have written, and the
\* destructor of a flushed encoder writes nothing.
FinalizedOnce ==
    pc \in { "abandoned", "destroyed" } =>
      /\ e.sink = written(encode(PushedWords))
      /\ pc = "destroyed" => (e.sink = rle /\ e.output = Len(rle) + 1)

\* the destructor of an encoder that was not flushed has written blocks
FinalizedOnceWitness ==
    /\ job = "lifecycle"
    /\ pc = "abandoned"
    /\ input > 1
    /\ Len(e.sink) > Len(written(encode_loop(new_encoder, PushedWords, 1)))

-----------------------------------------------------------------------------
(* C15 *)

\* C15: flush with nothing pending.  On an encoder with buffer_size = 0 and
\* state init flush() writes no block, leaves the output position and
\* empties the state; immediately after a flush() nothing is pending, so a
\* second flush() leaves the blocks of the first.
FlushNoOp ==
    /\ (pc \in { "encode", "flushed", "flushed_twice" }
          /\ e.buffer_size = 0 /\ e.state = "init") => flush(e) = reset(e)
    /\ pc \in { "flushed", "flushed_twice" } =>
         /\ e.buffer_size = 0 /\ e.state = "init" /\ e.rlen = 0 /\ e.buffer = {}
         /\ e.sink = rle
         /\ e.output = Len(rle) + 1

\* flush() has been called twice after pushes that left bits pending
FlushNoOpWitness ==
    /\ job = "lifecycle"
    /\ pc = "flushed_twice"
    /\ input > 1
    /\ Len(rle) > 0
    /\ ~IsRun(rle[Len(rle)])

-----------------------------------------------------------------------------
(* C16 *)

\* C16, as claimed: whenever pull returns Done, the carry buffer is empty
\* and no run is pending.
DoneMeansEmpty ==
    pc = "done" =>
      /\ result.status = "done"
      /\ d.input = d.last
      /\ d.buffer_size = 0
      /\ d.state = "read"

\* C16, amended: whenever pull returns Done, the source is exhausted and no
\* run is pending; the carry buffer holds the B mod W bits that do not fill
\* a word, B the number of bits the blocks stand for.
DoneMeansExhausted ==
    pc = "done" =>
      /\ result.status = "done"
      /\ d.input = d.last
      /\ d.state = "read"
      /\ d.buffer_size = TotalLen(rle) % digits

\* pull has returned Done after words, with bits left in the carry buffer
DoneWitness ==
    /\ pc = "done"
    /\ Len(decoded) >= 1
    /\ d.buffer_size > 0
    /\ \E k \in 1..Len(rle) : IsRun(rle[k])

-----------------------------------------------------------------------------
(* C17 *)

\* ws is the first words of vs
IsPrefix(ws, vs) == Len(ws) <= Len(vs) /\ ws = SubSeq(vs, 1, Len(ws))

\* C17: truncated input.  Decoding never makes a shift out of range, every
\* pull returns Success or Done, and decoding any prefix of the blocks gives
\* the words that this prefix fills, which are the first of the words
\* decoded from all the blocks: the incomplete last word is left out.
TruncatedDecode ==
    /\ pc \in { "decode", "done" } =>
         (d.shifts_ok /\ result.status \in { "success", "done" })
    /\ pc = "done" =>
         \A k \in 0..Len(rle) :
           LET part == decode(SubSeq(rle, 1, k))
           IN  /\ IsPrefix(part, decoded)
               /\ Len(part) = TotalLen(SubSeq(rle, 1, k)) \div digits

\* blocks have been decoded of which a proper prefix ends inside a word,
\* after a word or more
TruncatedWitness ==
    /\ job = "decode"
    /\ pc = "done"
    /\ \E k \in 1..(Len(rle) - 1) :
         /\ TotalLen(SubSeq(rle, 1, k)) > digits
         /\ TotalLen(SubSeq(rle, 1, k)) % digits # 0
         /\ Len(decoded) > TotalLen(SubSeq(rle, 1, k)) \div digits

-----------------------------------------------------------------------------
(* C18 *)

\* bits 7-6 of the byte b, as a number
TopBits(b) == b \div 64

\* C18: block wire format.  make_zeros(c) is a byte with bits 7-6 = 10 and
\* count c, make_ones(c) a byte with bits 7-6 = 11 and count c, for every c
\* in [8, 71]; make_literal(v) has bit 7 = 0 and the low 7 bits of v; and the
\* decoder takes every byte as exactly one of a literal (bit 7 = 0), a zeros
\* run or a ones run with a count in [8, 71], and produces the bits of that.
WireFormat ==
    pc \in { "decode", "done" } =>
      LET b == rle[1]
      IN  /\ b \in 0..255
          /\ job = "make_zeros" =>
               (TopBits(b) = 2 /\ brle8_mode(b) = mode_zeros /\ count(b) = arg)
          /\ job = "make_ones" =>
               (TopBits(b) = 3 /\ brle8_mode(b) = mode_ones /\ count(b) = arg)
          /\ job = "make_literal" =>
               (b < 128 /\ Bits(b, 8) = data[1] \cap (0..6))
          /\ job = "classify" =>
               /\ b < 128 <=> brle8_mode(b) \notin { mode_zeros, mode_ones }
               /\ TopBits(b) = 2 <=> brle8_mode(b) = mode_zeros
               /\ TopBits(b) = 3 <=> brle8_mode(b) = mode_ones
               /\ b >= 128 => (count(b) \in min_brle_len..max_count
                                 /\ count(b) = RunCount(b))
          /\ pc = "done" => Materialized = Expand(b)

\* a run block of the largest count has been made and decoded
WireFormatWitness ==
    /\ job = "make_ones"
    /\ pc = "done"
    /\ arg = max_count
    /\ rle = << 255 >>

-----------------------------------------------------------------------------
(* C19 *)

\* the positions 1, 2, .., n in this order
InOrder(positions) == positions = [ i \in 1..Len(positions) |-> i ]

\* every block was written at the output position of its time, the n-th at
\* position n, and output is one past the last block written; every source
\* block was read once, the n-th read at position n, below last
OneByOne ==
    /\ InOrder(e.stored)
    /\ Len(e.sink) = Len(e.stored)
    /\ e.output = Len(e.stored) + 1
    /\ InOrder(d.fetched)
    /\ d.input = Len(d.fetched) + 1
    /\ d.input <= d.last
    /\ (job = "roundtrip" /\ pc \in { "decode", "done" }) =>
         (rle = e.sink /\ d.last = e.output)

\* no operation changes a block written or moves a cursor backward
Forward ==
    /\ IsPrefix(e.sink, e'.sink)
    /\ e'.output >= e.output
    /\ IsPrefix(d.fetched, d'.fetched)
    /\ d'.input >= d.input

\* C19: forward-only sink and source.  The encoder writes each block at the
\* current output position and advances it by one, never writing a position
\* twice or out of order, and flush returns one past the last block written;
\* the decoder reads each source block at most once, in order, and its
\* cursor never moves backward.
ForwardOnly == []OneByOne /\ [][Forward]_vars

\* a round trip has written and read three blocks or more, the last one
\* written by flush
ForwardOnlyWitness ==
    /\ job = "roundtrip"
    /\ pc = "done"
    /\ Len(e.stored) >= 3
    /\ Len(d.fetched) = Len(e.stored)
    /\ Len(written(encode_loop(new_encoder, data, 1))) < Len(e.sink)

-----------------------------------------------------------------------------
(* C20 *)

\* C20: carry-buffer bound.  After construction, after every push, after
\* flush and after every pull, 0 <= buffer_size < W for the encoder and for
\* the decoder.
BufferBound ==
    /\ 0 <= e.buffer_size /\ e.buffer_size < digits
    /\ 0 <= d.buffer_size /\ d.buffer_size < digits

\* after a round trip's pushes and flush a pull has returned a word and
\* left 6 bits of a literal in the decoder's buffer
BufferBoundWitness ==
    /\ job = "roundtrip"
    /\ pc = "decode"
    /\ Len(data) >= 2
    /\ Len(decoded) >= 1
    /\ d.buffer_size = literal_size - 1

-----------------------------------------------------------------------------
(* C21 *)

\* no 8 consecutive bits of bits are identical
NoLongRun(bits) ==
    \A p \in 0..(Len(bits) - min_brle_len) :
      \E i \in 2..min_brle_len : bits[p + i] # bits[p + 1]

\* C21: literal-only worst case.  When the bits of the N words pushed hold
\* no run of 8 or more identical bits, every block written is a literal, and
\* after flush the number of blocks is exactly ceil(N * W / 7).
LiteralOnly ==
    (job = "encode" /\ NoLongRun(Pushed)) =>
      /\ \A k \in 1..Len(e.sink) : ~IsRun(e.sink[k])
      /\ pc = "flushed" => Len(rle) = CeilDiv((input - 1) * digits, 7)

\* three words of 16 bits or more without a run of 8 bits have been pushed
\* and flushed, the words not all the same, and the last literal is padded
LiteralOnlyWitness ==
    /\ job = "encode"
    /\ pc = "flushed"
    /\ digits >= 16
    /\ input = 4
    /\ data[1] # data[2]
    /\ NoLongRun(Pushed)
    /\ (3 * digits) % 7 # 0

-----------------------------------------------------------------------------
(* C22 *)

\* C22: best-case size.  Every run block written has a count of 71 or less,
\* so that no block stands for more than 71 bits, the blocks written after
\* flush stand for all the N * W bits pushed, and their number is at least
\* ceil(N * W / 71).
BestCase ==
    (job = "encode" /\ pc = "flushed") =>
      /\ \A k \in 1..Len(rle) :
           /\ IsRun(rle[k]) => count(rle[k]) <= max_count
           /\ Len(Expand(rle[k])) <= max_count
      /\ TotalLen(rle) >= (input - 1) * digits
      /\ Len(rle) >= CeilDiv((input - 1) * digits, max_count)

\* more than two times 71 identical bits have been encoded to the least
\* number of blocks
BestCaseWitness ==
    /\ job = "encode"
    /\ pc = "flushed"
    /\ (input - 1) * digits > 2 * max_count
    /\ Len(rle) = CeilDiv((input - 1) * digits, max_count)

-----------------------------------------------------------------------------
(* C23 *)

\* the steps the drain loops have made, and the blocks the decoder has
\* read, in one operation
DrainSteps == Len(e'.drained) - Len(e.drained)
BlocksRead == Len(d'.fetched) - Len(d.fetched)

\* C23: bounded steps.  Every push, flush and pull returns; every step of a
\* drain loop of the encoder consumes 1 bit or more, one push or flush makes
\* at most W steps, and one pull reads at most ceil(W / 7) blocks.
BoundedSteps ==
    [][ /\ DrainSteps <= digits
        /\ \A k \in 1..Len(e'.drained) : e'.drained[k] >= 1
        /\ BlocksRead <= CeilDiv(digits, 7) ]_vars

\* two words have been pushed and flushed in 5 drain steps or more, one of
\* which consumed a single bit, and the first pull has read ceil(W / 7)
\* blocks before it returned a word
BoundedStepsWitness ==
    /\ job = "roundtrip"
    /\ pc = "decode"
    /\ Len(data) = 2
    /\ Len(e.drained) >= 5
    /\ \E k \in 1..Len(e.drained) : e.drained[k] = 1
    /\ Len(decoded) = 1
    /\ Len(d.fetched) = CeilDiv(digits, 7)

-----------------------------------------------------------------------------
(* C24 *)

\* the arguments of the command line, after the name of the program
Args == [ i \in 1..(cli.opts.argc - 1) |-> cli.opts.argv[i] ]

\* an argument that holds options: a - followed by option characters
IsOptionArg(a) == Len(a) >= 2 /\ a[1] = "-" /\ a[2] # "-"

RECURSIVE OptionChars(_)
\* the option characters of the command line: those of the arguments that
\* hold options, up to the first argument that does not
OptionChars(args) ==
    IF args = << >> \/ ~IsOptionArg(Head(args)) THEN << >>
    ELSE Tail(Head(args)) \o OptionChars(Tail(args))

RECURSIVE LastDirection(_)
\* the last of the options e and d, and e when there is none
LastDirection(cs) ==
    IF cs = << >> THEN "e"
    ELSE IF cs[Len(cs)] \in { "e", "d" } THEN cs[Len(cs)]
    ELSE LastDirection(SubSeq(cs, 1, Len(cs) - 1))

\* C24: direction selection.  When the utility has transformed its input,
\* it has encoded if the command line holds neither -e nor -d, and otherwise
\* it has done what the last of the options e and d says, whether the
\* options stand in one group or in several arguments.
DirectionSelection ==
    (job = "main" /\ cli.at = "done") =>
      LET last == LastDirection(OptionChars(Args))
      IN  /\ cli.direction = last
          /\ last = "e" => (rle = written(encode(data)) /\ decoded = << >>)
          /\ last = "d" =>
               /\ decoded = decode([ i \in 1..Len(data) |-> Val(data[i]) ])
               /\ rle = << >>

\* the utility has encoded on a command line that holds the group -eded
\* followed by the argument -e
DirectionSelectionWitness ==
    /\ job = "main"
    /\ cli.at = "done"
    /\ Len(Args) = 4
    /\ Args[1] = << "-", "e", "d", "e", "d" >>
    /\ Args[2] = << "-", "e" >>
    /\ cli.direction = "e"
    /\ Len(rle) > 0

-----------------------------------------------------------------------------
(* C25 *)

RECURSIVE Operands(_)
\* the operands of the command line: the arguments after those that hold
\* options and after a -- that follows them
Operands(args) ==
    IF args = << >> THEN << >>
    ELSE IF IsOptionArg(Head(args)) THEN Operands(Tail(args))
    ELSE IF Head(args) = << "-", "-" >> THEN Tail(args)
    ELSE args

\* every option of the command line is one the utility knows
KnownOptions ==
    \A k \in 1..Len(OptionChars(Args)) : OptionChars(Args)[k] \in { "e", "d", "h" }

\* C25, as claimed: when the input or the output operand is omitted, the
\* utility selects standard input and/or standard output and transforms.
OmittedOperands ==
    (job = "main" /\ cli.at \in { "done", "exit" } /\ KnownOptions
       /\ Len(Operands(Args)) < 2) =>
      /\ cli.at = "done"
      /\ cli.out_file = "stdout"
      /\ Len(Operands(Args)) = 0 => cli.in_file = "stdin"

\* what the utility does: with fewer than two operands it ends with EINVAL
\* and transforms nothing
OmittedOperandsRejected ==
    (job = "main" /\ cli.at \in { "done", "exit" } /\ KnownOptions
       /\ Len(Operands(Args)) < 2) =>
      /\ cli.at = "exit"
      /\ cli.status = "EINVAL"
      /\ rle = << >> /\ decoded = << >>

-----------------------------------------------------------------------------
(* C26 *)

\* the n bits of bits after the first p are there and are identical
Identical(bits, p, n) ==
    /\ p + n <= Len(bits)
    /\ \A i \in 2..n : bits[p + i] = bits[p + 1]

\* C26: greedy decision at a block boundary.  Every block the pushes have
\* written begins where 8 unprocessed bits or more were at hand; it is a run
\* block iff these 8 bits are identical, a run of their value, and otherwise
\* a literal that holds exactly the next 7 bits, the first in bit 0; a run
\* that is pending between two pushes began the same way, where the blocks
\* written end.
GreedyDecision ==
    (job = "encode" /\ pc = "encode") =>
      LET bits == Pushed
          q    == TotalLen(Written)
      IN  /\ \A sb \in BlockStarts(Written, 0) :
               /\ sb[1] + min_brle_len <= Len(bits)
               /\ IsRun(sb[2]) <=> Identical(bits, sb[1], min_brle_len)
               /\ IsRun(sb[2]) => RunValue(sb[2]) = bits[sb[1] + 1]
               /\ ~IsRun(sb[2]) =>
                    Expand(sb[2]) = SubSeq(bits, sb[1] + 1, sb[1] + literal_size)
          /\ e.state # "init" =>
               /\ Identical(bits, q, min_brle_len)
               /\ bits[q + 1] = (IF e.state = "ones" THEN 1 ELSE 0)

\* the same, for the builds that do not leave the shifted word in the buffer
GreedyDecisionUnlessMasked == ub # "masked" => GreedyDecision

\* the pushes have written a literal that ends inside a run of 8 bits or
\* more, and the block after it
GreedyDecisionWitness ==
    /\ job = "encode"
    /\ pc = "encode"
    /\ ub # "masked"
    /\ \E sb \in BlockStarts(Written, 0) :
         /\ ~IsRun(sb[2])
         /\ sb[1] + literal_size < TotalLen(Written)
         /\ \E p \in (sb[1] + 1)..(sb[1] + literal_size - 1) :
              Identical(Pushed, p, min_brle_len)

-----------------------------------------------------------------------------
(* C27 *)

\* the bits of the run that is pending in the encoder
PendingRun == [ i \in 1..e.rlen |-> IF e.state = "ones" THEN 1 ELSE 0 ]

\* the numbers of bits add up: those of the blocks written, of the pending
\* run and of the buffer are the bits pushed
BitsAddUp ==
    (job = "encode" /\ pc = "encode") =>
      TotalLen(Written) + e.rlen + e.buffer_size = digits * (input - 1)

\* C27: encoder bit conservation.  After any sequence of pushes, the bits of
\* the blocks written, rlen and buffer_size add up to W times the number of
\* words pushed, and the expansion of the blocks written, followed by rlen
\* bits of the value of the pending run and by the buffer_size bits of the
\* buffer, is the pushed bit sequence.
BitConservation ==
    (job = "encode" /\ pc = "encode") =>
      /\ TotalLen(Written) + e.rlen + e.buffer_size = digits * (input - 1)
      /\ ExpandAll(Written) \o PendingRun \o LowBits(e.buffer, e.buffer_size)
           = Pushed

\* the same, for the builds that do not leave the shifted word in the buffer
BitConservationUnlessMasked == ub # "masked" => BitConservation

-----------------------------------------------------------------------------
(* C28 *)

\* C28: bounded surplus at the end of the stream.  The blocks written by the
\* pushes of N words and flush stand for N * W bits or more and for
\* N * W + 6 bits or fewer, so that decoding them with the same W returns N
\* words and no more.
BoundedSurplus ==
    (job = "encode" /\ pc = "flushed") =>
      /\ TotalLen(rle) >= (input - 1) * digits
      /\ TotalLen(rle) <= (input - 1) * digits + (literal_size - 1)
      /\ Len(decode(rle)) = input - 1

\* two words or more have been encoded to blocks that stand for 6 bits more
\* than the words hold
BoundedSurplusWitness ==
    /\ job = "encode"
    /\ pc = "flushed"
    /\ input >= 3
    /\ TotalLen(rle) = (input - 1) * digits + (literal_size - 1)

-----------------------------------------------------------------------------
(* C29 *)

\* C29: pipeline prefix.  When a decoder of the same width reads the blocks
\* of an encoder as the pushes write them, the words pulled so far are at
\* every point the first of the words pushed so far, and once flush has
\* been called and the decoder has returned Done, the words pulled are the
\* words pushed.
PipelinePrefix ==
    job = "pipeline" =>
      /\ IsPrefix(decoded, PushedWords)
      /\ pc = "done" => decoded = PushedWords

\* the same, for the builds that do not leave the shifted word in the buffer
PipelinePrefixUnlessMasked == ub # "masked" => PipelinePrefix

-----------------------------------------------------------------------------
(* C30 *)

\* C30: width independence.  The blocks written depend on the bit sequence
\* only and not on W: the blocks written for the bytes taken as words of 16,
\* 32 or 64 bits, low byte first, are the blocks written for the bytes.
WidthIndependence ==
    (job = "words" /\ pc = "reencoded") => written(e) = rle

\* the part of the claim about 16-bit words: a byte sequence of even length
\* encoded as 16-bit words gives the blocks of the bytes
WidthIndependence16 ==
    (job = "words" /\ pc = "reencoded" /\ digits = 16) => written(e) = rle

\* the same for all widths, on the builds that do not leave the shifted
\* word in the buffer
WidthIndependenceUnlessMasked ==
    ub # "masked" => WidthIndependence

-----------------------------------------------------------------------------
(* C31 *)

\* C31: decoder resumption.  Pulling until Done on the first blocks, then
\* set_input with the blocks that remain and pulling until Done again,
\* writes the words that decoding all the blocks from one range writes; and
\* the pulls on the first range write the words decoded from that range.
Resumed ==
    job = "resume" =>
      /\ pc \in { "exhausted", "exhausted_again" } =>
           decoded = decode(SubSeq(rle, 1, arg))
      /\ pc \in { "done", "done_again" } => decoded = decode(rle)

\* both ranges have been decoded, the first ends inside a word, and a word
\* was made of bits of both ranges
ResumedWitness ==
    /\ job = "resume"
    /\ pc = "done"
    /\ arg > 0 /\ arg < Len(rle)
    /\ TotalLen(SubSeq(rle, 1, arg)) % digits # 0
    /\ Len(decoded) > Len(decode(SubSeq(rle, 1, arg)))
                        + Len(decode(SubSeq(rle, arg + 1, Len(rle))))

-----------------------------------------------------------------------------
(* C32 *)

\* the caller positions after a pull on the current range has returned Done
AfterDone == { "exhausted", "exhausted_again", "done", "done_again" }

\* the step is a pull: every step of a resumed decoder but set_input
PullStep == ~(pc \in { "exhausted", "exhausted_again" } /\ pc' = "decode")

\* the pull left the members of the decoder as they were
DecoderUnchanged ==
    /\ d'.buffer = d.buffer
    /\ d'.buffer_size = d.buffer_size
    /\ d'.state = d.state
    /\ d'.rlen = d.rlen
    /\ d'.input = d.input

\* C32, as claimed: a pull that returns Done leaves buffer, buffer_size,
\* state, rlen and the input cursor unchanged and carries data 0.
DoneLeavesUnchanged ==
    [][ (job = "resume" /\ PullStep /\ result'.status = "done")
          => (DecoderUnchanged /\ result'.data = {}) ]_vars

\* C32, amended: a pull that returns Done carries data 0 and leaves the
\* decoder in state read at the end of its range, after reading the blocks
\* that were left in it; every pull after it, without set_input, returns
\* Done, writes no word, and leaves buffer, buffer_size, state, rlen and the
\* input cursor unchanged.
DoneStable ==
    [][ job = "resume" =>
          /\ (PullStep /\ result'.status = "done") =>
                (result'.data = {} /\ d'.state = "read" /\ d'.input = d'.last)
          /\ (PullStep /\ pc \in AfterDone) =>
                (result'.status = "done" /\ DecoderUnchanged
                   /\ decoded' = decoded) ]_vars

\* the decoder was pulled again after the Done on the second range, with
\* words written and bits left in the carry buffer
DoneStableWitness ==
    /\ job = "resume"
    /\ pc = "done_again"
    /\ Len(decoded) >= 1
    /\ d.buffer_size > 0
    /\ arg < Len(rle)

-----------------------------------------------------------------------------
(* C33 *)

\* the words pushed after the first flush()
SecondWords == SubSeq(data, arg + 1, input - 1)

\* the blocks written after the first flush()
SecondBlocks == SubSeq(e.sink, Len(rle) + 1, e.output - 1)

\* C33: encoder reuse after flush.  After pushes followed by flush() the
\* encoder is in its initial state (buffer 0, buffer_size 0, state init,
\* rlen 0), and the blocks written for a second word sequence pushed and
\* flushed afterwards follow those of the first and are the blocks a fresh
\* encoder writes for that sequence.
ReuseAfterFlush ==
    job = "reuse" =>
      /\ (pc = "reuse" /\ input = arg + 1) =>
           /\ e.buffer = {} /\ e.buffer_size = 0
           /\ e.state = "init" /\ e.rlen = 0
           /\ e.output = Len(rle) + 1
      /\ pc = "reflushed" =>
           /\ e.asserts_ok
           /\ SubSeq(e.sink, 1, Len(rle)) = rle
           /\ e.output = Len(e.sink) + 1
           /\ SecondBlocks = written(encode(SecondWords))

\* a second sequence was pushed and flushed on an encoder whose first
\* flush() came with bits or a run pending
ReuseWitness ==
    /\ job = "reuse"
    /\ pc = "reflushed"
    /\ arg >= 1
    /\ Len(SecondWords) >= 1
    /\ Len(SecondBlocks) >= 1
    /\ Len(rle) > Len(written(encode_loop(new_encoder, SubSeq(data, 1, arg), 1)))

-----------------------------------------------------------------------------
(* C34 *)

\* C34, as claimed: shift counts stay in range.  Every shift that push
\* applies to a value of W bits has a count in 0..W-1, also when a whole
\* pushed word is consumed as part of a run at buffer offset 0.
ShiftsInRange == job = "encode" => e.shifts_ok

-----------------------------------------------------------------------------
(* C35 *)

\* C35, as claimed: move keeps finalization single.  After an encoder with
\* buffered bits or a run in progress is move-constructed into a new
\* encoder, destroying the encoder moved from writes no block, and only
\* the new encoder finalizes the pending data: once both are destroyed the
\* blocks written are those of the words pushed followed by one flush().
MoveFinalizesOnce ==
    job = "move" =>
      /\ pc \in { "other_destroyed", "both_destroyed" } => other.stored = << >>
      /\ pc = "both_destroyed" => e.sink = written(encode(PushedWords))

\* the part that holds: an encoder with nothing pending when it is moved
\* from writes no block when it is destroyed
MoveOfEmptyEncoder ==
    (job = "move" /\ pc \in { "other_destroyed", "both_destroyed" }
       /\ written(encode_loop(new_encoder, SubSeq(data, 1, arg), 1))
            = written(encode(SubSeq(data, 1, arg))))
      => other.stored = << >>

-----------------------------------------------------------------------------
(* C36 *)

\* the number of bits of value v at the low end of the word v
Trailing(v, w) ==
    CHOOSE n \in 0..digits :
      /\ \A j \in 0..(n - 1) : (j \in w) = (v = 1)
      /\ n < digits => (n \in w) # (v = 1)

\* C36: run counter.  For every value of W bits countr_zero is the number
\* of trailing 0 bits and countr_one the number of trailing 1 bits, both in
\* 0..W; countr_zero(0) = W, countr_one(0) = 0 and countr_one(2^W - 1) = W;
\* and the de Bruijn surrogates return the same values.
RunCounter ==
    pc \in { "std", "surrogate" } =>
      /\ arg \in 0..digits
      /\ job = "countr_zero" => arg = Trailing(0, data[1])
      /\ job = "countr_one" => arg = Trailing(1, data[1])
      /\ (job = "countr_zero" /\ data[1] = zero_word) => arg = digits
      /\ (job = "countr_one" /\ data[1] = zero_word) => arg = 0
      /\ (job = "countr_one" /\ data[1] = ones_word) => arg = digits

\* the surrogate has counted the trailing ones of a value of 64 bits that
\* has ones up to the top half and bits above them
RunCounterWitness ==
    /\ pc = "surrogate"
    /\ job = "countr_one"
    /\ digits = 64
    /\ arg > 32 /\ arg < 60
    /\ \E j \in (arg + 1)..63 : j \in data[1]

-----------------------------------------------------------------------------
(* C37 *)

\* the carry buffer has no bit set at position buffer_size or above
Clean(s) == \A j \in s.buffer : j < s.buffer_size

\* C37, as claimed: the decoder carry buffer is clean.  Between pull calls,
\* in every decoder state, also during a run that continues across words,
\* the carry buffer has no bit set at position buffer_size or above.
CarryBufferClean == job = "resume" => Clean(d)

\* what holds: the carry buffer is clean between pull calls unless a run of
\* 71 ones continues across words (state ones_max); then buffer_size is 0
\* and the buffer still holds the word the pull returned
CarryBufferCleanUnlessOnesMax ==
    job = "resume" =>
      /\ d.state # "ones_max" => Clean(d)
      /\ d.state = "ones_max" =>
           (d.buffer_size = 0 /\ d.buffer = result.data
              /\ result.status = "success")

=============================================================================
